---- MODULE Spec2Model ----
(***************************************************************************)
(* A model of the PyFlyde execution engine: ports and queues (flyde/io.py) *)
(* and the leaf and graph workers (flyde/node.py, flyde/flow.py).          *)
(*                                                                         *)
(* Every worker thread, and the thread of the caller (main), executes its  *)
(* code in steps; one step is one access to shared state (one queue get or *)
(* put, one event set or wait).  Nested calls (a put on a RedirectQueue    *)
(* that calls Output.send, which puts on further queues) are kept on the   *)
(* thread's stack of pending operations.                                   *)
(***************************************************************************)
EXTENDS Integers, Sequences, FiniteSets, TLC

(***************************************************************************)
(* Bounds.                                                                 *)
(***************************************************************************)
MaxVals == 2        \* values the caller puts on one exposed input before EOF
MaxCalls == 4       \* calls the caller makes on a bare port
MaxQueues == 3      \* queues connected to a bare output
MaxRef == 3         \* inc_ref_count() calls on a bare graph port and its queue
MaxDec == 1         \* dec_ref_count() calls on a bare graph port and its queue

(***************************************************************************)
(* Messages.  A message is an object: its runtime type, its content, and   *)
(* obj, which tells objects of equal content apart (0 for the objects the  *)
(* caller and the components create).  EOF is the one sentinel object of   *)
(* io.py, and a deep copy of it is another object with the same args.      *)
(***************************************************************************)
Msg(t, v) == [type |-> t, val |-> v, obj |-> 0]
EOF == [type |-> "EOF", val |-> 0, obj |-> 0]
EOFCopy == [type |-> "EOF", val |-> 0, obj |-> 1]
None == [type |-> "None", val |-> 0, obj |-> 0]

is_EOF(value) == value.type = "EOF"

\* the types whose objects copy.deepcopy returns as they are
Atomic == {"str", "int", "None"}

\* deepcopy(value), where the copy it creates is object number fresh
deepcopy(value, fresh) ==
    IF value.type \in Atomic THEN value ELSE [value EXCEPT !.obj = fresh]

\* the number of the object that the send after k earlier sends on an
\* output creates for its i-th queue: different for different <<k, i>>
Fresh(k, i) == ((k + i) * (k + i + 1)) \div 2 + i + 1

\* isinstance(value, type) of Output.send; the type "any" stands for type=None
isinstance(value, type) == value.type = type

(***************************************************************************)
(* Topologies.  A topology is what the loader builds: leaves, graphs, the  *)
(* pins of each node, the instances and connections of each graph, and the *)
(* queues that the caller connects to the root's exposed outputs.  A port  *)
(* is <<node, pin>>; the queue of an input port is named like the port.    *)
(***************************************************************************)
This == "__this"

Conn(fi, fp, ti, tp) == [from |-> <<fi, fp>>, to |-> <<ti, tp>>]

Out_q == <<"test", "out_q">>

NoTopo ==
    [leaves |-> {}, graphs |-> <<>>, ins |-> <<>>, outs |-> <<>>,
     instances |-> <<>>, connections |-> <<>>, proc |-> <<>>,
     imode |-> <<>>, otype |-> <<>>, omode |-> <<>>,
     outside |-> <<>>, bareOut |-> {}, barePort |-> {}, bareIn |-> {},
     ivalue |-> <<>>, defaults |-> {}, required |-> <<>>, itype |-> <<>>]

\* S2: exposed input -> one leaf -> exposed output
TopoInOut(p) ==
    [NoTopo EXCEPT
     !.leaves = {"echo"}, !.graphs = <<"g">>,
     !.ins = [g |-> <<"inMsg">>, echo |-> <<"inp">>],
     !.outs = [g |-> <<"outMsg">>, echo |-> <<"out">>],
     !.instances = [g |-> <<"echo">>],
     !.connections = [g |-> << Conn(This, "inMsg", "echo", "inp"),
                              Conn("echo", "out", This, "outMsg") >>],
     !.proc = [echo |-> p],
     !.outside = << <<"g", "outMsg">> >>]

\* S4: the exposed input `str` fans out to three leaves, an echo, an
\* uppercase and a greeter, all wired to the one exposed output `out`
TopoFanIn ==
    [NoTopo EXCEPT
     !.leaves = {"echo", "cap", "greet"}, !.graphs = <<"g">>,
     !.ins = [g |-> <<"str">>, echo |-> <<"inp">>, cap |-> <<"inp">>,
              greet |-> <<"inp">>],
     !.outs = [g |-> <<"out">>, echo |-> <<"out">>, cap |-> <<"out">>,
               greet |-> <<"out">>],
     !.instances = [g |-> <<"echo", "cap", "greet">>],
     !.connections = [g |-> << Conn(This, "str", "echo", "inp"),
                              Conn(This, "str", "cap", "inp"),
                              Conn(This, "str", "greet", "inp"),
                              Conn("echo", "out", This, "out"),
                              Conn("cap", "out", This, "out"),
                              Conn("greet", "out", This, "out") >>],
     !.proc = [echo |-> "Echo", cap |-> "Capitalize", greet |-> "Greet"],
     !.outside = << <<"g", "out">> >>]

\* a leaf with two queue inputs, each fed by its own exposed input
TopoJoin ==
    [NoTopo EXCEPT
     !.leaves = {"join"}, !.graphs = <<"g">>,
     !.ins = [g |-> <<"x", "y">>, join |-> <<"a", "b">>],
     !.outs = [g |-> <<"out">>, join |-> <<"out">>],
     !.instances = [g |-> <<"join">>],
     !.connections = [g |-> << Conn(This, "x", "join", "a"),
                              Conn(This, "y", "join", "b"),
                              Conn("join", "out", This, "out") >>],
     !.proc = [join |-> "Echo"],
     !.outside = << <<"g", "out">> >>]

\* S2 with one more exposed input, listed first, that no connection uses
TopoSpare(p) ==
    [TopoInOut(p) EXCEPT !.ins = [g |-> <<"spare", "inMsg">>, echo |-> <<"inp">>]]

\* the nodes and ports of S2 before any connection is wired
TopoWire ==
    [TopoInOut("Echo") EXCEPT !.connections = [g |-> << >>], !.outside = << >>]

\* S3: the root exposes `inp` and `n` and holds a nested graph; the leaf in
\* it repeats each word 3 * n times and uppercases it, and its input for n
\* is sticky
TopoNested ==
    [NoTopo EXCEPT
     !.leaves = {"rep"}, !.graphs = <<"sub", "g">>,
     !.ins = [g |-> <<"inp", "n">>, sub |-> <<"word", "times">>,
              rep |-> <<"word", "times">>],
     !.outs = [g |-> <<"out">>, sub |-> <<"out">>, rep |-> <<"out">>],
     !.instances = [g |-> <<"sub">>, sub |-> <<"rep">>],
     !.connections = [sub |-> << Conn(This, "word", "rep", "word"),
                                Conn(This, "times", "rep", "times"),
                                Conn("rep", "out", This, "out") >>,
                      g |-> << Conn(This, "inp", "sub", "word"),
                              Conn(This, "n", "sub", "times"),
                              Conn("sub", "out", This, "out") >>],
     !.proc = [rep |-> "RepeatUpper"],
     !.imode = (<<"rep", "times">> :> "sticky"),
     !.otype = (<<"rep", "out">> :> "str"),
     !.outside = << <<"g", "out">> >>]

\* S2's leaf held by a graph that is nested in the root graph
TopoWrapped ==
    [NoTopo EXCEPT
     !.leaves = {"echo"}, !.graphs = <<"sub", "g">>,
     !.ins = [g |-> <<"inp">>, sub |-> <<"sinp">>, echo |-> <<"inp">>],
     !.outs = [g |-> <<"out">>, sub |-> <<"sout">>, echo |-> <<"out">>],
     !.instances = [g |-> <<"sub">>, sub |-> <<"echo">>],
     !.connections = [sub |-> << Conn(This, "sinp", "echo", "inp"),
                                Conn("echo", "out", This, "sout") >>,
                      g |-> << Conn(This, "inp", "sub", "sinp"),
                              Conn("sub", "sout", This, "out") >>],
     !.proc = [echo |-> "Echo"],
     !.outside = << <<"g", "out">> >>]

\* S1: a source that produces one value and stops, wired to a sink
TopoIsolated ==
    [NoTopo EXCEPT
     !.leaves = {"src", "sink"}, !.graphs = <<"g">>,
     !.ins = [g |-> <<>>, src |-> <<>>, sink |-> <<"inp">>],
     !.outs = [g |-> <<>>, src |-> <<"out">>, sink |-> <<>>],
     !.instances = [g |-> <<"src", "sink">>],
     !.connections = [g |-> << Conn("src", "out", "sink", "inp") >>],
     !.proc = [src |-> "Source", sink |-> "Sink"]]

\* S6: a leaf that may fail, wired to a downstream leaf
TopoChain(p, ty) ==
    [NoTopo EXCEPT
     !.leaves = {"first", "echo"}, !.graphs = <<"g">>,
     !.ins = [g |-> <<"inp">>, first |-> <<"inp">>, echo |-> <<"inp">>],
     !.outs = [g |-> <<"out">>, first |-> <<"out">>, echo |-> <<"out">>],
     !.instances = [g |-> <<"first", "echo">>],
     !.connections = [g |-> << Conn(This, "inp", "first", "inp"),
                              Conn("first", "out", "echo", "inp"),
                              Conn("echo", "out", This, "out") >>],
     !.proc = [first |-> p, echo |-> "Echo"],
     !.otype = (<<"first", "out">> :> ty),
     !.outside = << <<"g", "out">> >>]

\* the static value the tests configure: Input(mode=InputMode.STATIC, value=3)
StaticTimes == Msg("int", 3)

\* RepeatWordNTimes behind exposed inputs: `word` is a queue input, `times`
\* is an input of mode m (sticky, or static with the configured value)
TopoRepeat(m) ==
    [NoTopo EXCEPT
     !.leaves = {"rep"}, !.graphs = <<"g">>,
     !.ins = [g |-> <<"word", "times">>, rep |-> <<"word", "times">>],
     !.outs = [g |-> <<"out">>, rep |-> <<"out">>],
     !.instances = [g |-> <<"rep">>],
     !.connections = [g |-> << Conn(This, "word", "rep", "word"),
                              Conn(This, "times", "rep", "times"),
                              Conn("rep", "out", This, "out") >>],
     !.proc = [rep |-> "Repeat"],
     !.imode = (<<"rep", "times">> :> m),
     !.ivalue = IF m = "static" THEN (<<"rep", "times">> :> StaticTimes) ELSE << >>,
     !.otype = (<<"rep", "out">> :> "str"),
     !.outside = << <<"g", "out">> >>]

\* a leaf whose only input is of mode m (sticky or static) and whose process
\* stops it, behind an exposed input
TopoLatch(m) ==
    [TopoInOut("Once") EXCEPT
     !.ins = [g |-> <<"inp">>, echo |-> <<"inp">>],
     !.connections = [g |-> << Conn(This, "inp", "echo", "inp"),
                              Conn("echo", "out", This, "outMsg") >>],
     !.imode = (<<"echo", "inp">> :> m),
     !.ivalue = IF m = "static" THEN (<<"echo", "inp">> :> StaticTimes) ELSE << >>]

\* a leaf whose output, of mode m, is wired to the inputs of two sinks
TopoSpread(m) ==
    [NoTopo EXCEPT
     !.leaves = {"echo", "sink", "cap"}, !.graphs = <<"g">>,
     !.ins = [g |-> <<"inMsg">>, echo |-> <<"inp">>, sink |-> <<"inp">>, cap |-> <<"inp">>],
     !.outs = [g |-> << >>, echo |-> <<"out">>, sink |-> << >>, cap |-> << >>],
     !.instances = [g |-> <<"echo", "sink", "cap">>],
     !.connections = [g |-> << Conn(This, "inMsg", "echo", "inp"),
                              Conn("echo", "out", "sink", "inp"),
                              Conn("echo", "out", "cap", "inp") >>],
     !.proc = [echo |-> "Echo", sink |-> "Sink", cap |-> "Sink"],
     !.omode = (<<"echo", "out">> :> m)]

\* two interior producers wired to the same queue input of one leaf
TopoMerge ==
    [NoTopo EXCEPT
     !.leaves = {"echo", "cap", "sink"}, !.graphs = <<"g">>,
     !.ins = [g |-> <<"x", "y">>, echo |-> <<"inp">>, cap |-> <<"inp">>, sink |-> <<"inp">>],
     !.outs = [g |-> << >>, echo |-> <<"out">>, cap |-> <<"out">>, sink |-> << >>],
     !.instances = [g |-> <<"echo", "cap", "sink">>],
     !.connections = [g |-> << Conn(This, "x", "echo", "inp"),
                              Conn(This, "y", "cap", "inp"),
                              Conn("echo", "out", "sink", "inp"),
                              Conn("cap", "out", "sink", "inp") >>],
     !.proc = [echo |-> "Echo", cap |-> "Echo", sink |-> "Sink"]]

(***************************************************************************)
(* Bare ports, as a unit test builds them: an Output, a GraphPort and an   *)
(* Input that belong to no running node; the caller connects queues.       *)
(***************************************************************************)
BareO == <<"bare", "o">>
BareP == <<"bare", "p">>
BareI == <<"bare", "i">>

TopoOutput(m, ty) ==
    [NoTopo EXCEPT !.bareOut = {BareO},
                   !.omode = (BareO :> m), !.otype = (BareO :> ty)]

TopoPort(m) ==
    [NoTopo EXCEPT !.barePort = {BareP}, !.omode = (BareP :> m)]

TopoEdge(im) ==
    [NoTopo EXCEPT !.bareOut = {BareO}, !.bareIn = {BareI},
                   !.imode = (BareI :> im)]

\* Input(mode=im, type=ty, value=v, required=req), as test_get builds it
TopoInput(im, ty, req, v) ==
    [NoTopo EXCEPT !.bareIn = {BareI},
                   !.imode = (BareI :> im), !.itype = (BareI :> ty),
                   !.required = (BareI :> req), !.ivalue = (BareI :> v)]

\* a graph built by hand: two leaves constructed without a `stopped`
\* argument, each fed by its own exposed input
TopoPair ==
    [NoTopo EXCEPT
     !.leaves = {"echo", "cap"}, !.graphs = <<"g">>,
     !.ins = [g |-> <<"x", "y">>, echo |-> <<"inp">>, cap |-> <<"inp">>],
     !.outs = [g |-> <<"out">>, echo |-> <<"out">>, cap |-> <<"out">>],
     !.instances = [g |-> <<"echo", "cap">>],
     !.connections = [g |-> << Conn(This, "x", "echo", "inp"),
                              Conn(This, "y", "cap", "inp"),
                              Conn("echo", "out", This, "out"),
                              Conn("cap", "out", This, "out") >>],
     !.proc = [echo |-> "Echo", cap |-> "Echo"],
     !.outside = << <<"g", "out">> >>,
     !.defaults = {"echo", "cap"}]

\* a bare Output in mode m next to a bare GraphPort, whose redirect queue
\* the caller may connect to the output
TopoTee(m) ==
    [NoTopo EXCEPT !.bareOut = {BareO}, !.barePort = {BareP},
                   !.omode = (BareO :> m)]

Topo(s) ==
    CASE s.name = "InOut" -> TopoInOut(s.proc)
      [] s.name = "FanIn" -> TopoFanIn
      [] s.name = "Join" -> TopoJoin
      [] s.name = "Nested" -> TopoNested
      [] s.name = "Wrapped" -> TopoWrapped
      [] s.name = "Isolated" -> TopoIsolated
      [] s.name = "Chain" -> TopoChain(s.proc, s.type)
      [] s.name = "Unwired" -> [TopoInOut(s.proc) EXCEPT !.outside = << >>]
      [] s.name = "Repeat" -> TopoRepeat(s.mode)
      [] s.name = "Latch" -> TopoLatch(s.mode)
      [] s.name = "Spread" -> TopoSpread(s.mode)
      [] s.name = "Merge" -> TopoMerge
      [] s.name = "Spare" -> TopoSpare(s.proc)
      [] s.name = "Wire" -> TopoWire
      [] s.name = "Load" -> NoTopo
      [] s.name = "Trip" -> NoTopo
      [] s.name = "Output" -> TopoOutput(s.mode, s.type)
      [] s.name = "Port" -> TopoPort(s.mode)
      [] s.name = "Edge" -> TopoEdge(s.mode)
      [] s.name = "Input" -> TopoInput(s.mode, s.type, s.required, s.value)
      [] s.name = "Tee" -> TopoTee(s.mode)
      [] s.name = "Pair" -> TopoPair

Scen(n) == [name |-> n, proc |-> "Echo", mode |-> "ref", type |-> "any"]
ScenProc(n, p, ty) == [Scen(n) EXCEPT !.proc = p, !.type = ty]
ScenMode(n, m, ty) == [Scen(n) EXCEPT !.mode = m, !.type = ty]

(***************************************************************************)
(* What a topology contains.                                               *)
(***************************************************************************)
Range(f) == {f[i] : i \in DOMAIN f}

Graphs(T) == Range(T.graphs)
Nodes(T) == T.leaves \cup Graphs(T)
Root(T) == T.graphs[Len(T.graphs)]

PortsOf(n, pins) == {<<n, pins[i]>> : i \in DOMAIN pins}

LeafInputs(T) == UNION {PortsOf(n, T.ins[n]) : n \in T.leaves}
LeafOutputs(T) == UNION {PortsOf(n, T.outs[n]) : n \in T.leaves}
GraphInputs(T) == UNION {PortsOf(g, T.ins[g]) : g \in Graphs(T)}
GraphOutputs(T) == UNION {PortsOf(g, T.outs[g]) : g \in Graphs(T)}

\* the ports whose queue is a RedirectQueue
GraphPorts(T) == GraphInputs(T) \cup GraphOutputs(T) \cup T.barePort
\* the ports that are an Input with a state of their own
Inputs(T) == LeafInputs(T) \cup T.bareIn
\* everything that has Output._queues
Outputs(T) == LeafOutputs(T) \cup GraphPorts(T) \cup T.bareOut

PlainQueue(i) == <<"test", ToString(i)>>
PlainQueues == {PlainQueue(i) : i \in 1..(MaxQueues + 1)}
\* the real Queue objects
Queues(T) == Inputs(T) \cup PlainQueues \cup {Out_q}

Threads(T) == Nodes(T) \cup {"main"}

\* Output.__init__ defaults: mode=OutputMode.REF, type=None
OutputMode(T, o) == IF o \in DOMAIN T.omode THEN T.omode[o] ELSE "ref"
OutputType(T, o) == IF o \in DOMAIN T.otype THEN T.otype[o] ELSE "any"
\* a variant of Input.__init__ that makes every input a queue input
InputMode_queue(T, i) == "queue"

\* Input.__init__ default: mode=InputMode.QUEUE
InputMode(T, i) == IF i \in DOMAIN T.imode THEN T.imode[i] ELSE "queue"

\* Input.__init__ default: type=None, written "any"
InputType(T, i) == IF i \in DOMAIN T.itype THEN T.itype[i] ELSE "any"

\* Input.__init__ default: required=Requiredness.REQUIRED
Required(T, i) == IF i \in DOMAIN T.required THEN T.required[i] ELSE "required"

(***************************************************************************)
(* The state.                                                              *)
(***************************************************************************)
VARIABLES
    scen,           \* the topology that was loaded
    queues,         \* Output._queues of every output and graph port
    circle_index,   \* Output._circle_index
    ref_count,      \* RedirectQueue._ref_count of every graph port
    qitems,         \* the items of every Queue
    value,          \* Input._value
    stop,           \* Component._stop of every leaf
    stopped,        \* Node._stopped of every node
    shutdowns,      \* the shutdown() calls each node received
    pc,             \* where each thread is
    idx,            \* the loop index of each thread
    inputs,         \* the inputs dict a leaf worker is filling
    res,            \* what is left of the mapping process returned
    pending,        \* each thread's stack of calls that have not run yet
    exc,            \* the exception each thread raised last
    sent,           \* what the caller passed to put() and send(), per port
    got,            \* what get() returned, per input
    puts,           \* what was passed to put() of each RedirectQueue
    seen,           \* the inputs of the process invocations of each leaf
    calls           \* the calls the caller made on a bare port, by name

ports == <<queues, circle_index, ref_count, qitems, value>>
events == <<stop, stopped, shutdowns>>
locals == <<pc, idx, inputs, res, pending, exc>>
history == <<sent, puts, got, seen, calls>>
vars == <<scen, ports, events, locals, history>>

(***************************************************************************)
(* Wiring: Graph.__init__, then the caller's connect() of a queue to each  *)
(* exposed output of the root.                                             *)
(***************************************************************************)
connect(qs, output, queue) == [qs EXCEPT ![output] = Append(@, queue)]

\* a variant of Output.connected that reports every output as unconnected
connected_never(qs) == FALSE

\* Output.connected
connected(qs) == Len(qs) > 0

\* one connection of graph g: the three cases of Graph.__init__
WireConn(qs, g, conn) ==
    LET from_id == conn.from[1]
        from_pin == conn.from[2]
        to_id == conn.to[1]
        to_pin == conn.to[2]
    IN  IF from_id # This /\ to_id # This
        THEN connect(qs, <<from_id, from_pin>>, <<to_id, to_pin>>)
        ELSE IF from_id = This
        THEN connect(qs, <<g, from_pin>>, <<to_id, to_pin>>)
        ELSE connect(qs, <<from_id, from_pin>>, <<g, to_pin>>)

RECURSIVE WireConns(_, _, _)
WireConns(qs, g, conns) ==
    IF conns = <<>> THEN qs
    ELSE WireConns(WireConn(qs, g, Head(conns)), g, Tail(conns))

RECURSIVE WireGraphs(_, _, _)
WireGraphs(qs, T, gs) ==
    IF gs = <<>> THEN qs
    ELSE WireGraphs(WireConns(qs, Head(gs), T.connections[Head(gs)]), T, Tail(gs))

RECURSIVE WireOutside(_, _)
WireOutside(qs, outs) ==
    IF outs = <<>> THEN qs
    ELSE WireOutside(connect(qs, Head(outs), Out_q), Tail(outs))

Wire(T) ==
    WireOutside(WireGraphs([o \in Outputs(T) |-> <<>>], T, T.graphs), T.outside)

\* the queues that exist once the outputs hold the queues qs: the caller's
\* Queue objects, and Input._queue of every input whose `queue` property
\* was read to connect it (the property creates the queue on its first read)
Created(T, qs) ==
    PlainQueues \cup {Out_q}
    \cup {i \in Inputs(T) : \E o \in DOMAIN qs : \E k \in DOMAIN qs[o] : qs[o][k] = i}

\* the queues qi with an empty queue for each input that got its queue
Create(qi, T, qs) ==
    [q \in DOMAIN qi \cup Created(T, qs) |-> IF q \in DOMAIN qi THEN qi[q] ELSE << >>]

\* a variant of Graph._check_pin that accepts everything
check_pin_lax(T, g, pin_type, instance_id, pin_id) == "none"

\* Graph._check_pin: the error it raises, or "none"
check_pin(T, g, pin_type, instance_id, pin_id) ==
    IF instance_id \notin Range(T.instances[g]) THEN "WiringError"
    ELSE IF pin_type = "in" /\ pin_id \notin Range(T.ins[instance_id])
    THEN "WiringError"
    ELSE IF pin_type = "out" /\ pin_id \notin Range(T.outs[instance_id])
    THEN "WiringError"
    ELSE "none"

\* Graph.__init__: the error the validation of the ids of one end raises
EndError(T, g, side, end) ==
    IF end[1] = This
    THEN (IF end[2] \notin Range(IF side = "from" THEN T.ins[g] ELSE T.outs[g])
          THEN "WiringError" ELSE "none")
    ELSE check_pin(T, g, IF side = "from" THEN "out" ELSE "in", end[1], end[2])

\* Graph.__init__: the error one connection raises: the source is validated,
\* then the target; a connection from a port of the graph to a port of the
\* graph passes both and then looks up the instance named "__this"
ConnError(T, g, conn) ==
    IF EndError(T, g, "from", conn.from) # "none"
    THEN EndError(T, g, "from", conn.from)
    ELSE IF EndError(T, g, "to", conn.to) # "none"
    THEN EndError(T, g, "to", conn.to)
    ELSE IF conn.from[1] = This /\ conn.to[1] = This THEN "KeyError"
    ELSE "none"

\* Graph.__init__: `for conn in self._connections`, up to the first error
RECURSIVE WireChecked(_, _, _, _)
WireChecked(qs, T, g, conns) ==
    IF conns = << >> THEN [qs |-> qs, err |-> "none"]
    ELSE IF ConnError(T, g, Head(conns)) # "none"
    THEN [qs |-> qs, err |-> ConnError(T, g, Head(conns))]
    ELSE WireChecked(WireConn(qs, g, Head(conns)), T, g, Tail(conns))

(***************************************************************************)
(* The state after construction of topology s.                             *)
(***************************************************************************)
InitOf(s) ==
    LET T == Topo(s) IN
    /\ scen = s
    /\ queues = Wire(T)
    /\ circle_index = [o \in Outputs(T) |-> 0]
    /\ ref_count = [p \in GraphPorts(T) |-> 0]
    /\ qitems = [q \in Created(T, Wire(T)) |-> <<>>]
    /\ value = [i \in Inputs(T) |->
                   IF i \in DOMAIN T.ivalue THEN T.ivalue[i] ELSE None]
    /\ stop = [n \in T.leaves |-> FALSE]
    /\ stopped = [n \in Nodes(T) |-> FALSE]
    /\ shutdowns = [n \in Nodes(T) |-> 0]
    /\ pc = [t \in Threads(T) |-> "created"]
    /\ idx = [t \in Threads(T) |-> 1]
    /\ inputs = [t \in T.leaves |-> <<>>]
    /\ res = [t \in T.leaves |-> <<>>]
    /\ pending = [t \in Threads(T) |-> <<>>]
    /\ exc = [t \in Threads(T) |-> "none"]
    /\ sent = [p \in Outputs(T) |-> <<>>]
    /\ puts = [p \in GraphPorts(T) |-> <<>>]
    /\ got = [i \in Inputs(T) |-> <<>>]
    /\ seen = [t \in T.leaves |-> <<>>]
    /\ calls = << >>

(***************************************************************************)
(* Output.send and RedirectQueue.put.                                      *)
(***************************************************************************)
Put(q, item) == [op |-> "put", q |-> q, item |-> item]
Chk(q, item) == [op |-> "chk", q |-> q, item |-> item]
Adv(o) == [op |-> "adv", q |-> o, item |-> None]

\* a variant of Output.send that checks no type
TypeMismatch_never(type, v) == FALSE

\* Output.send: the check of the declared type
TypeMismatch(type, v) == type # "any" /\ ~is_EOF(v) /\ ~isinstance(v, type)

\* Output.send: the error it raises before it enqueues anything, or "none"
SendError(T, o, v) ==
    IF TypeMismatch(OutputType(T, o), v) THEN "TypeMismatch"
    ELSE IF Len(queues[o]) = 0 THEN "UnconnectedOutput"
    ELSE "none"

\* Output.send: the queue of the round-robin cursor
CircleQueue(qs, index) == qs[index + 1]

\* a variant of mode value that copies nothing
ValueItem_same(i, v, fresh) == v

\* Output.send: the item queue i (counted from 1) receives in mode value
ValueItem(i, v, fresh) == IF i = 1 THEN v ELSE deepcopy(v, fresh)

\* a variant of Output.send that serves the first queue only
SendOps_first(mode, qs, index, o, v) == << Put(qs[1], v) >>

\* Output.send: the queue operations of a send that raises nothing, in order
SendOps(mode, qs, index, o, v) ==
    IF Len(qs) = 1 THEN << Put(qs[1], v) >>
    ELSE IF mode = "circle" THEN << Put(CircleQueue(qs, index), v), Adv(o) >>
    ELSE IF mode = "ref" THEN [i \in 1..Len(qs) |-> Put(qs[i], v)]
    ELSE IF mode = "value"
    THEN [i \in 1..Len(qs) |-> Put(qs[i], ValueItem(i, v, Fresh(Len(sent[o]), i)))]
    ELSE << >>

\* Output.send: the cursor after a round-robin put
NextIndex(index, n) == (index + 1) % n

\* RedirectQueue.put: `item is EOF`
IsEOFObject(item) == item = EOF

\* a variant of RedirectQueue.put that passes an EOF on only below zero
ForwardsEOF_below(count) == count < 0

\* RedirectQueue.put: whether an EOF is passed on, given the count after the decrement
ForwardsEOF(count) == count <= 0

\* a variant in which the call returns at once and raises nothing
Raise_silent(t, e) ==
    /\ pending' = [pending EXCEPT ![t] = << >>]
    /\ exc' = [exc EXCEPT ![t] = "none"]
    /\ pc' = pc

\* an exception leaves every frame of thread t; a worker thread dies of it,
\* the caller's thread catches it
Raise(t, e) ==
    /\ pending' = [pending EXCEPT ![t] = << >>]
    /\ exc' = [exc EXCEPT ![t] = e]
    /\ pc' = [pc EXCEPT ![t] = IF t = "main" THEN @ ELSE "raised"]

\* thread t calls o.send(v), then goes on with `rest` at `next`
CallSend(t, o, v, rest, next) ==
    LET T == Topo(scen)
        e == SendError(T, o, v)
    IN  /\ sent' = [sent EXCEPT ![o] = Append(@, v)]
        /\ IF e = "none"
           THEN /\ pending' = [pending EXCEPT ![t] =
                       SendOps(OutputMode(T, o), queues[o], circle_index[o], o, v) \o rest]
                /\ pc' = [pc EXCEPT ![t] = next]
                /\ exc' = [exc EXCEPT ![t] = IF t = "main" THEN "none" ELSE @]
           ELSE Raise(t, e)

\* thread t runs the next queue operation of the call it is in
ExecOp(t) ==
    LET T == Topo(scen)
        op == Head(pending[t])
        rest == Tail(pending[t])
    IN
    /\ t \in Threads(T)
    /\ pending[t] # << >>
    /\ op.op \in {"put", "chk", "adv"}
    /\ CASE op.op = "put" /\ op.q \notin GraphPorts(T) ->
              \* Queue.put
              /\ qitems' = [qitems EXCEPT ![op.q] = Append(@, op.item)]
              /\ pending' = [pending EXCEPT ![t] = rest]
              /\ UNCHANGED <<circle_index, ref_count, pc, exc, sent, puts>>
         [] op.op = "put" /\ op.q \in GraphPorts(T) ->
              \* RedirectQueue.put
              /\ puts' = [puts EXCEPT ![op.q] = Append(@, op.item)]
              /\ IF IsEOFObject(op.item)
                 THEN /\ ref_count' = [ref_count EXCEPT ![op.q] = @ - 1]
                      /\ pending' = [pending EXCEPT ![t] = << Chk(op.q, op.item) >> \o rest]
                      /\ UNCHANGED <<pc, exc, sent>>
                 ELSE /\ CallSend(t, op.q, op.item, rest, pc[t])
                      /\ UNCHANGED ref_count
              /\ UNCHANGED <<circle_index, qitems>>
         [] op.op = "chk" ->
              /\ IF ForwardsEOF(ref_count[op.q])
                 THEN CallSend(t, op.q, op.item, rest, pc[t])
                 ELSE /\ pending' = [pending EXCEPT ![t] = rest]
                      /\ UNCHANGED <<pc, exc, sent>>
              /\ UNCHANGED <<circle_index, ref_count, qitems, puts>>
         [] op.op = "adv" ->
              /\ circle_index' = [circle_index EXCEPT ![op.q] =
                                     NextIndex(@, Len(queues[op.q]))]
              /\ pending' = [pending EXCEPT ![t] = rest]
              /\ UNCHANGED <<ref_count, qitems, pc, exc, sent, puts>>
    /\ UNCHANGED <<scen, queues, value, events, idx, inputs, res, got, seen, calls>>

(***************************************************************************)
(* Input.get.                                                              *)
(***************************************************************************)
\* whether get() waits: Queue.get on an empty queue
Blocks(mode, items, latched) ==
    \/ mode = "queue" /\ items = << >>
    \/ mode = "sticky" /\ items = << >> /\ latched = None

\* a variant of get() that leaves the item it returns in the queue
Takes_never(mode, items, latched) == FALSE

\* whether get() takes an item from the queue
Takes(mode, items, latched) ==
    \/ mode = "queue"
    \/ mode = "sticky" /\ (items # << >> \/ latched = None)

\* a variant of get() that never latches what it takes
Latched_none(mode, items, latched) == latched

\* a variant of get() that latches whatever it takes, EOF included
Latched_any(mode, items, latched) ==
    IF mode = "sticky" /\ (items # << >> \/ latched = None)
    THEN Head(items) ELSE latched

\* Input._value after get()
Latched(mode, items, latched) ==
    IF mode = "sticky" /\ Takes(mode, items, latched) /\ ~is_EOF(Head(items))
    THEN Head(items) ELSE latched

\* a variant of get() that returns the newest item of the queue
GetValue_last(mode, items, latched) == items[Len(items)]

\* what get() returns
GetValue(mode, items, latched) ==
    IF mode = "queue" THEN Head(items) ELSE Latched(mode, items, latched)

\* Input.is_connected: `hasattr(self, "_queue")`
is_connected(qi, i) == i \in DOMAIN qi

\* Input.get: `if not self.is_connected and (self.required == OPTIONAL or
\* self.required == REQUIRED_IF_CONNECTED): return self._value`
ReturnsValue(required, conn) ==
    ~conn /\ required \in {"optional", "required-if-connected"}

\* Input.get: `self._queue.get()` and `self._queue.empty()` on an input that
\* has no _queue raise AttributeError; mode static never reads _queue
GetRaises(mode, required, conn) ==
    ~conn /\ ~ReturnsValue(required, conn) /\ mode \in {"queue", "sticky"}

\* whether get() on input i raises
Raises(T, i) ==
    GetRaises(InputMode(T, i), Required(T, i), is_connected(qitems, i))

\* thread t calls get() on input i, and get() returns
CallGet(T, i) ==
    LET mode == InputMode(T, i) IN
    /\ ~Raises(T, i)
    /\ IF ~is_connected(qitems, i)
       THEN \* `return self._value`: first branch, or mode static
            /\ got' = [got EXCEPT ![i] = Append(@, value[i])]
            /\ UNCHANGED <<qitems, value>>
       ELSE /\ ~Blocks(mode, qitems[i], value[i])
            /\ qitems' = [qitems EXCEPT ![i] =
                             IF Takes(mode, @, value[i]) THEN Tail(@) ELSE @]
            /\ value' = [value EXCEPT ![i] = Latched(mode, qitems[i], @)]
            /\ got' = [got EXCEPT ![i] =
                          Append(@, GetValue(mode, qitems[i], value[i]))]

(***************************************************************************)
(* The process functions of the components used (tests/components.py,      *)
(* tests/test_node.py).  A string is a number; upper() adds Upper to a     *)
(* lower-case one.  InvalidSend is InvalidSendProcess with a declared      *)
(* output "out": it returns a value for "out" and one for the unknown key  *)
(* "zz".                                                                   *)
(***************************************************************************)
Upper == 10

\* `word * times` of RepeatWordNTimes: the string that is word, times times,
\* written as the number Times * times + word
Times == 100

upper(v) == IF v.val % Times < Upper THEN Msg("str", v.val + Upper) ELSE v

\* "Hello, <x>!": the greeting adds Greeting to the string x
Greeting == 20

greet(v) == Msg("str", v.val + Greeting)

\* 3 * n
Triple(n) == Msg("int", 3 * n.val)

repeat(word, times) == Msg("str", Times * times.val + word.val)

Returns(r) == [res |-> r, stop |-> FALSE, raises |-> FALSE]

process(kind, in) ==
    CASE kind = "Echo" -> Returns(<< <<"out", in[1]>> >>)
      [] kind = "Capitalize" ->
            IF in[1].type = "str" THEN Returns(<< <<"out", upper(in[1])>> >>)
            ELSE [Returns(<< >>) EXCEPT !.raises = TRUE]
      [] kind = "Greet" -> Returns(<< <<"out", greet(in[1])>> >>)
      [] kind = "Source" ->
            [Returns(<< <<"out", Msg("str", 1)>> >>) EXCEPT !.stop = TRUE]
      [] kind = "Sink" -> Returns(<< >>)
      [] kind = "Once" ->
            [Returns(<< <<"out", in[1]>> >>) EXCEPT !.stop = TRUE]
      [] kind = "InvalidSend" -> Returns(<< <<"out", in[1]>>, <<"zz", in[1]>> >>)
      [] kind = "Repeat" ->
            IF in[1].type = "str" /\ in[2].type = "int"
            THEN Returns(<< <<"out", repeat(in[1], in[2])>> >>)
            ELSE [Returns(<< >>) EXCEPT !.raises = TRUE]
      [] kind = "RepeatUpper" ->
            IF in[1].type = "str" /\ in[2].type = "int"
            THEN Returns(<< <<"out", upper(repeat(in[1], Triple(in[2])))>> >>)
            ELSE [Returns(<< >>) EXCEPT !.raises = TRUE]

(***************************************************************************)
(* Component.run.worker: the thread of a leaf.                             *)
(***************************************************************************)
\* the number of queue-mode inputs among the first n inputs of leaf t
RECURSIVE queue_count(_, _, _)
queue_count(T, t, n) ==
    IF n = 0 THEN 0
    ELSE queue_count(T, t, n - 1)
         + (IF InputMode(T, <<t, T.ins[t][n]>>) = "queue" THEN 1 ELSE 0)

\* the number of queue-mode inputs among them that returned EOF
RECURSIVE queue_closed_count(_, _, _, _)
queue_closed_count(T, t, in, n) ==
    IF n = 0 THEN 0
    ELSE queue_closed_count(T, t, in, n - 1)
         + (IF InputMode(T, <<t, T.ins[t][n]>>) = "queue" /\ is_EOF(in[n])
            THEN 1 ELSE 0)

\* a variant that never ends the loop on closed inputs
AllClosed_never(count, closed) == FALSE

\* a variant of the test that is true when any queue input returned EOF
AllClosed_any(count, closed) == closed > 0

\* `if queue_count > 0 and queue_count == queue_closed_count`
AllClosed(count, closed) == count > 0 /\ count = closed

\* `k not in self.outputs`
UnknownOutput(outs, k) == k \notin Range(outs)

\* a variant of the worker that never looks at its stop flag
Continues_always(flag) == TRUE

\* `while not self._stop.is_set()`
Continues(flag) == ~flag

\* the test of the worker's loop
WorkerLoop(t) ==
    LET T == Topo(scen) IN
    /\ t \in T.leaves
    /\ pc[t] = "loop"
    /\ pc' = [pc EXCEPT ![t] = IF ~Continues(stop[t]) THEN "finish"
                               ELSE IF T.ins[t] = << >> THEN "process"
                               ELSE "read"]
    /\ idx' = [idx EXCEPT ![t] = 1]
    /\ inputs' = [inputs EXCEPT ![t] = << >>]
    /\ UNCHANGED <<scen, ports, events, res, pending, exc, history>>

\* a variant of the loop that goes through the inputs from the last one
NextInput_reversed(ins, i) == ins[Len(ins) + 1 - i]

\* `for key, inp in self.inputs.items()`: the i-th input that is read
NextInput(ins, i) == ins[i]

\* `value = inp.get()` of the next input
WorkerRead(t) ==
    LET T == Topo(scen)
        i == <<t, NextInput(T.ins[t], idx[t])>>
    IN
    /\ t \in T.leaves
    /\ pc[t] = "read"
    /\ IF Raises(T, i)
       THEN \* the AttributeError leaves the worker: no stop(), no finish()
            /\ Raise(t, "AttributeError")
            /\ UNCHANGED <<qitems, value, got, inputs, idx>>
       ELSE /\ CallGet(T, i)
            /\ inputs' = [inputs EXCEPT ![t] = Append(@, got'[i][Len(got'[i])])]
            /\ idx' = [idx EXCEPT ![t] = @ + 1]
            /\ pc' = [pc EXCEPT ![t] =
                         IF idx[t] = Len(T.ins[t]) THEN "process" ELSE "read"]
            /\ UNCHANGED <<pending, exc>>
    /\ UNCHANGED <<scen, queues, circle_index, ref_count, events, res,
                   sent, puts, seen, calls>>

\* the check of the closed inputs, then `res = self.process(**inputs)`
WorkerProcess(t) ==
    LET T == Topo(scen)
        n == Len(T.ins[t])
        r == process(T.proc[t], inputs[t])
    IN
    /\ t \in T.leaves
    /\ pc[t] = "process"
    /\ IF AllClosed(queue_count(T, t, n), queue_closed_count(T, t, inputs[t], n))
       THEN /\ stop' = [stop EXCEPT ![t] = TRUE]
            /\ pc' = [pc EXCEPT ![t] = "finish"]
            /\ UNCHANGED <<res, pending, exc, seen>>
       ELSE /\ seen' = [seen EXCEPT ![t] = Append(@, inputs[t])]
            /\ IF r.raises
               THEN /\ Raise(t, "UserException")
                    /\ UNCHANGED <<res, stop>>
               ELSE /\ res' = [res EXCEPT ![t] = r.res]
                    /\ stop' = [stop EXCEPT ![t] = @ \/ r.stop]
                    /\ pc' = [pc EXCEPT ![t] = "dispatch"]
                    /\ UNCHANGED <<pending, exc>>
    /\ idx' = [idx EXCEPT ![t] = 1]
    /\ UNCHANGED <<scen, ports, stopped, shutdowns, inputs, sent, puts, got, calls>>

\* `for k, v in res.items()`: one key of the returned mapping
WorkerDispatch(t) ==
    LET T == Topo(scen)
        k == Head(res[t])[1]
        v == Head(res[t])[2]
    IN
    /\ t \in T.leaves
    /\ pc[t] = "dispatch"
    /\ pending[t] = << >>
    /\ IF res[t] = << >>
       THEN /\ pc' = [pc EXCEPT ![t] = "loop"]
            /\ UNCHANGED <<res, stop, pending, exc, sent>>
       ELSE IF UnknownOutput(T.outs[t], k)
       THEN \* self.stop(); self.finish(); raise e
            /\ stop' = [stop EXCEPT ![t] = TRUE]
            /\ exc' = [exc EXCEPT ![t] = "UnknownOutput"]
            /\ pc' = [pc EXCEPT ![t] = "finish"]
            /\ res' = [res EXCEPT ![t] = << >>]
            /\ UNCHANGED <<pending, sent>>
       ELSE /\ res' = [res EXCEPT ![t] = Tail(@)]
            /\ UNCHANGED stop
            /\ IF connected(queues[<<t, k>>])
               THEN CallSend(t, <<t, k>>, v, << >>, "dispatch")
               ELSE UNCHANGED <<pc, pending, exc, sent>>
    /\ UNCHANGED <<scen, ports, stopped, shutdowns, idx, inputs, puts, got, seen, calls>>

(***************************************************************************)
(* Node.finish, run by the thread of node n (a leaf or a graph).           *)
(***************************************************************************)
\* the Event object node n holds as its stopped event: the one it was given,
\* or the default of the `stopped` parameter, one object per __init__
\* (Node.__init__ for leaves, Graph.__init__ for graphs)
StoppedEvent(T, n) ==
    IF n \notin T.defaults THEN n
    ELSE IF n \in T.leaves THEN "Node.__init__" ELSE "Graph.__init__"

\* `self._stopped.set()` of node n: what is_set() is on the stopped event of
\* every node afterwards
set(T, ev, n) ==
    [m \in DOMAIN ev |-> ev[m] \/ StoppedEvent(T, m) = StoppedEvent(T, n)]

Finish(n) ==
    LET T == Topo(scen)
        o == <<n, T.outs[n][idx[n]]>>
    IN
    /\ n \in Nodes(T)
    /\ pc[n] = "finish"
    /\ pending[n] = << >>
    /\ IF idx[n] <= Len(T.outs[n])
       THEN \* `if output.connected: output.send(EOF)`
            /\ idx' = [idx EXCEPT ![n] = @ + 1]
            /\ IF connected(queues[o])
               THEN CallSend(n, o, EOF, << >>, "finish")
               ELSE UNCHANGED <<pc, pending, exc, sent>>
            /\ UNCHANGED stopped
       ELSE \* `self._stopped.set()`, and the worker returns or raises
            /\ stopped' = set(T, stopped, n)
            /\ pc' = [pc EXCEPT ![n] = IF exc[n] = "none" THEN "done" ELSE "raised"]
            /\ UNCHANGED <<idx, pending, exc, sent>>
    /\ UNCHANGED <<scen, ports, stop, shutdowns, inputs, res, puts, got, seen, calls>>

(***************************************************************************)
(* Graph.run.worker: `v.wait()` on the stopped event of the next instance. *)
(***************************************************************************)
\* a variant of the loop that is over after the first instance
LastWait_first(instances, i) == TRUE

\* `for k, v in self._instances_stopped.items()` is at its last item
LastWait(instances, i) == i = Len(instances)

GraphWait(g) ==
    LET T == Topo(scen) IN
    /\ g \in Graphs(T)
    /\ pc[g] = "wait"
    /\ stopped[T.instances[g][idx[g]]]
    /\ IF LastWait(T.instances[g], idx[g])
       THEN /\ pc' = [pc EXCEPT ![g] = "finish"]
            /\ idx' = [idx EXCEPT ![g] = 1]
       ELSE /\ idx' = [idx EXCEPT ![g] = @ + 1]
            /\ UNCHANGED pc
    /\ UNCHANGED <<scen, ports, events, inputs, res, pending, exc, history>>

(***************************************************************************)
(* The caller: Flow.run, puts on the exposed inputs of the root, and the   *)
(* rest of Flow.run_sync.                                                  *)
(***************************************************************************)
\* the values the caller puts: strings, and an integer where a leaf may fail
Values(s) ==
    IF s.name \in {"Chain", "Unwired"} THEN {Msg("str", 1), Msg("int", 1)}
    ELSE {Msg("str", 1), Msg("str", 2)}

\* the threads that n.run() starts, in the order of their Thread.start():
\* Component.run starts the worker of the leaf; Graph.run calls run() of
\* every instance in turn and then starts the worker of the graph
RECURSIVE StartOrder(_, _)
RECURSIVE StartAll(_, _)
StartOrder(T, n) ==
    IF n \in T.leaves THEN << n >> ELSE StartAll(T, T.instances[n]) \o << n >>

StartAll(T, instances) ==
    IF instances = << >> THEN << >>
    ELSE StartOrder(T, Head(instances)) \o StartAll(T, Tail(instances))

\* Flow.run: one Thread.start() of Graph.run on the root; the threads that
\* were started earlier run while the caller starts the next one, and run()
\* returns when the worker of the root is started
Run ==
    LET T == Topo(scen)
        order == StartOrder(T, Root(T))
        t == order[idx["main"]]
    IN
    /\ T.graphs # << >>
    /\ pc["main"] \in {"created", "starting"}
    /\ pc' = [pc EXCEPT
                 ![t] = IF t \in T.leaves THEN "loop" ELSE "wait",
                 !["main"] = IF idx["main"] = Len(order) THEN "running"
                             ELSE "starting"]
    /\ idx' = [idx EXCEPT !["main"] = IF @ = Len(order) THEN 1 ELSE @ + 1]
    /\ UNCHANGED <<scen, ports, events, inputs, res, pending, exc, history>>

\* the values the caller puts on exposed input p: numbers on `times`
PortValues(s, p) ==
    IF p[2] = "times" THEN {Msg("int", 2), Msg("int", 3)}
    ELSE IF p[2] = "n" THEN {Msg("int", 1), Msg("int", 2)}
    ELSE IF s.name \in {"Merge", "Pair"} THEN {Msg("str", IF p[2] = "x" THEN 1 ELSE 2)}
    ELSE IF s.name = "FanIn" THEN {Msg("str", 1)}
    ELSE Values(s)

\* the number of values the caller puts on one exposed input: S4 is driven
\* with one value and EOF
NumPuts(s) == IF s.name = "FanIn" THEN 1 ELSE MaxVals

\* everything the caller may put on an exposed input
DriverItems ==
    {Msg("str", 1), Msg("str", 2), Msg("int", 1), Msg("int", 2), Msg("int", 3), EOF}

NumValues(s) == Cardinality({i \in DOMAIN s : ~is_EOF(s[i])})
Closed(s) == \E i \in DOMAIN s : is_EOF(s[i])

\* `in_q.put(item)` on the queue of an exposed input of the root
DriverPut(p, item) ==
    LET T == Topo(scen) IN
    /\ T.graphs # << >>
    /\ pc["main"] = "running"
    /\ pending["main"] = << >>
    /\ p \in PortsOf(Root(T), T.ins[Root(T)])
    /\ item \in PortValues(scen, p) \cup {EOF}
    /\ ~Closed(puts[p])
    /\ is_EOF(item) \/ NumValues(puts[p]) < NumPuts(scen)
    /\ pending' = [pending EXCEPT !["main"] = << Put(p, item) >>]
    /\ UNCHANGED <<scen, ports, events, pc, idx, inputs, res, exc, history>>

RECURSIVE shutdown(_, _)

\* a variant of Graph.shutdown that calls no instance
shutdown_self(T, n) == {n}

\* the nodes whose shutdown() runs when n.shutdown() is called: Node.shutdown
\* does nothing more, Graph.shutdown calls shutdown() of every instance
shutdown(T, n) ==
    IF n \in T.leaves THEN {n}
    ELSE {n} \cup UNION {shutdown(T, m) : m \in Range(T.instances[n])}

\* Flow.run_sync: `self._node.stopped.wait()`
MainWait ==
    LET T == Topo(scen) IN
    /\ T.graphs # << >>
    /\ pc["main"] = "running"
    /\ pending["main"] = << >>
    /\ stopped[Root(T)]
    /\ pc' = [pc EXCEPT !["main"] = "stopped"]
    /\ UNCHANGED <<scen, ports, events, idx, inputs, res, pending, exc, history>>

\* Flow.run_sync: `self._node.shutdown()`, which calls shutdown() of every instance
MainShutdown ==
    /\ pc["main"] = "stopped"
    /\ shutdowns' = [n \in DOMAIN shutdowns |->
                        IF n \in shutdown(Topo(scen), Root(Topo(scen)))
                        THEN shutdowns[n] + 1 ELSE shutdowns[n]]
    /\ pc' = [pc EXCEPT !["main"] = "done"]
    /\ UNCHANGED <<scen, ports, stop, stopped, idx, inputs, res, pending, exc, history>>

Step(t) ==
    \/ ExecOp(t)
    \/ WorkerLoop(t)
    \/ WorkerRead(t)
    \/ WorkerProcess(t)
    \/ WorkerDispatch(t)
    \/ Finish(t)
    \/ GraphWait(t)

AllThreads ==
    {"main", "g", "sub", "echo", "cap", "greet", "join", "src", "sink", "first",
     "rep"}

Drive ==
    \/ Run
    \/ \E p \in {"g"} \X {"inMsg", "str", "x", "y", "inp", "n", "word", "times"} :
          \E item \in DriverItems : DriverPut(p, item)
    \/ MainWait
    \/ MainShutdown

NextFlow == Drive \/ \E t \in AllThreads : Step(t)

FlowScenarios ==
    {Scen("InOut"), ScenProc("InOut", "Capitalize", "any"), Scen("FanIn"),
     Scen("Join"), Scen("Wrapped"), Scen("Isolated")}

InitFlow == \E s \in FlowScenarios : InitOf(s)

\* flows whose leaves process whatever the caller puts
SpecFlow == InitFlow /\ [][NextFlow]_vars

FailScenarios ==
    {ScenProc("Chain", "Echo", "int"), ScenProc("Chain", "Capitalize", "str"),
     Scen("Unwired"), ScenProc("InOut", "InvalidSend", "any")}

InitFail == \E s \in FailScenarios : InitOf(s)

ModeScenarios ==
    {ScenMode("Repeat", "sticky", "any"), ScenMode("Repeat", "static", "any"),
     Scen("Nested")}

InitModes == \E s \in ModeScenarios : InitOf(s)

\* flows around a component with a sticky or a static input
SpecModes == InitModes /\ [][NextFlow]_vars

StopScenarios ==
    {Scen("Join"), ScenMode("Repeat", "sticky", "any"), ScenMode("Repeat", "static", "any"),
     ScenMode("Latch", "sticky", "any"), ScenMode("Latch", "static", "any")}

InitStops == \E s \in StopScenarios : InitOf(s)

SpreadScenarios == {ScenMode("Spread", m, "any") : m \in {"ref", "value", "circle"}}

InitSpread == \E s \in SpreadScenarios : InitOf(s)

\* flows in which one output feeds two consumers, in each output mode
SpecSpread == InitSpread /\ [][NextFlow]_vars

\* the graph built by hand from leaves that were given no stopped event
InitPair == InitOf(Scen("Pair"))

SpecPair == InitPair /\ [][NextFlow]_vars

\* the flow whose leaf input has two producers
InitMerge == InitOf(Scen("Merge"))

SpecMerge == InitMerge /\ [][NextFlow]_vars

\* flows around a leaf with two queue inputs, with a queue input and a
\* sticky or static one, and with a sticky or static input alone
SpecStops == InitStops /\ [][NextFlow]_vars

\* what the caller passed to put() on exposed input p, the call that has
\* not reached RedirectQueue.put yet included
Called(p) ==
    LET ops == pending["main"] IN
    IF ops # << >> /\ Head(ops).op = "put" /\ Head(ops).q = p
    THEN Append(puts[p], Head(ops).item) ELSE puts[p]

\* the rounds of the tests: the caller puts the word of a round, then the
\* sticky value of the round, then reads the output of the round
Rounds ==
    LET words == Len(Called(<<"g", "word">>))
        times == Len(Called(<<"g", "times">>))
    IN  /\ times <= words
        /\ words <= times + 1
        /\ words >= 2 => Len(qitems[Out_q]) >= words - 1

NextRounds ==
    \/ Run
    \/ \E p \in {"g"} \X {"word", "times"} :
          \E item \in DriverItems :
              DriverPut(p, item) /\ Rounds'
    \/ MainWait
    \/ MainShutdown
    \/ \E t \in AllThreads : Step(t)

InitRounds == InitOf(ScenMode("Repeat", "sticky", "any"))

\* the sticky component, driven round by round
SpecRounds == InitRounds /\ [][NextRounds]_vars

\* flows with a leaf that fails on some of the values the caller puts
SpecFail == InitFail /\ [][NextFlow]_vars

(***************************************************************************)
(* The caller of a bare port: connect() and inc_ref_count() while wiring,  *)
(* then send(), put() and get().                                           *)
(***************************************************************************)
BareItems == {Msg("str", 1), Msg("int", 1), Msg("list", 1), EOF}

Count(s, x) == Cardinality({i \in DOMAIN s : s[i] = x})

IncCalls == {"inc_ref_count", "queue.inc_ref_count"}
DecCalls == {"dec_ref_count", "queue.dec_ref_count"}
WiringCalls == {"connect"} \cup IncCalls \cup DecCalls

\* the calls made so far that are in the set xs
CountIn(s, xs) == Cardinality({i \in DOMAIN s : s[i] \in xs})

Wiring == \A i \in DOMAIN calls : calls[i] \in WiringCalls
Running == Cardinality({i \in DOMAIN calls : calls[i] \notin WiringCalls})

\* the queue the next connect() attaches: the queue of the bare input, if
\* there is one, else a new queue
NextQueue(T, o) ==
    IF T.bareIn # {} THEN BareI ELSE PlainQueue(Len(queues[o]) + 1)

\* Output.connect
BareConnect(o) ==
    LET T == Topo(scen) IN
    /\ o \in T.bareOut \cup T.barePort
    /\ Wiring
    /\ Len(queues[o]) < (IF T.bareIn # {} THEN 1 ELSE MaxQueues)
    /\ queues' = connect(queues, o, NextQueue(T, o))
    /\ qitems' = Create(qitems, T, queues')
    /\ calls' = Append(calls, "connect")
    /\ UNCHANGED <<scen, circle_index, ref_count, value, events, locals,
                   sent, puts, got, seen>>

\* GraphPort.inc_ref_count: the count of the redirect queue and the count
\* of the Input, which is the number of these calls minus the dec calls
BareIncRef(p) ==
    LET T == Topo(scen) IN
    /\ p \in T.barePort
    /\ Wiring
    /\ CountIn(calls, IncCalls) < MaxRef
    /\ ref_count' = [ref_count EXCEPT ![p] = @ + 1]
    /\ calls' = Append(calls, "inc_ref_count")
    /\ UNCHANGED <<scen, queues, circle_index, qitems, value, events, locals,
                   sent, puts, got, seen>>

\* GraphPort.dec_ref_count
BareDecRef(p) ==
    LET T == Topo(scen) IN
    /\ p \in T.barePort
    /\ Wiring
    /\ CountIn(calls, DecCalls) < MaxDec
    /\ ref_count' = [ref_count EXCEPT ![p] = @ - 1]
    /\ calls' = Append(calls, "dec_ref_count")
    /\ UNCHANGED <<scen, queues, circle_index, qitems, value, events, locals,
                   sent, puts, got, seen>>

\* RedirectQueue.inc_ref_count, called on p.queue: the count of the redirect
\* queue alone
QueueIncRef(p) ==
    LET T == Topo(scen) IN
    /\ p \in T.barePort
    /\ Wiring
    /\ CountIn(calls, IncCalls) < MaxRef
    /\ ref_count' = [ref_count EXCEPT ![p] = @ + 1]
    /\ calls' = Append(calls, "queue.inc_ref_count")
    /\ UNCHANGED <<scen, queues, circle_index, qitems, value, events, locals,
                   sent, puts, got, seen>>

\* RedirectQueue.dec_ref_count, called on p.queue
QueueDecRef(p) ==
    LET T == Topo(scen) IN
    /\ p \in T.barePort
    /\ Wiring
    /\ CountIn(calls, DecCalls) < MaxDec
    /\ ref_count' = [ref_count EXCEPT ![p] = @ - 1]
    /\ calls' = Append(calls, "queue.dec_ref_count")
    /\ UNCHANGED <<scen, queues, circle_index, qitems, value, events, locals,
                   sent, puts, got, seen>>

\* Input.ref_count of the bare graph port: RedirectQueue.put and the calls
\* made on p.queue leave it alone
InputRefCount == Count(calls, "inc_ref_count") - Count(calls, "dec_ref_count")

\* Output.send
BareSend(o, v) ==
    LET T == Topo(scen) IN
    /\ o \in T.bareOut
    /\ pending["main"] = << >>
    /\ Running < MaxCalls
    /\ CallSend("main", o, v, << >>, pc["main"])
    /\ calls' = Append(calls, "send")
    /\ UNCHANGED <<scen, ports, events, idx, inputs, res, puts, got, seen>>

\* RedirectQueue.put on the queue of a graph port
BarePut(p, item) ==
    LET T == Topo(scen) IN
    /\ p \in T.barePort
    /\ pending["main"] = << >>
    /\ Running < MaxCalls
    /\ pending' = [pending EXCEPT !["main"] = << Put(p, item) >>]
    /\ exc' = [exc EXCEPT !["main"] = "none"]
    /\ calls' = Append(calls, "put")
    /\ UNCHANGED <<scen, ports, events, pc, idx, inputs, res, sent, puts, got, seen>>

\* Input.get, when it does not wait
BareGet(i) ==
    LET T == Topo(scen) IN
    /\ i \in T.bareIn
    /\ pending["main"] = << >>
    /\ Running < MaxCalls
    /\ IF Raises(T, i)
       THEN /\ exc' = [exc EXCEPT !["main"] = "AttributeError"]
            /\ UNCHANGED <<qitems, value, got>>
       ELSE /\ CallGet(T, i)
            /\ exc' = [exc EXCEPT !["main"] = "none"]
    /\ calls' = Append(calls, "get")
    /\ UNCHANGED <<scen, queues, circle_index, ref_count, events,
                   pc, idx, inputs, res, pending, sent, puts, seen>>

\* what the caller puts on the queue of a lone input, or sets as its value
InputItems == {Msg("int", 1), Msg("str", 1), EOF}

\* `inp.queue`: the first read of the property creates the queue
BareQueue(i) ==
    LET T == Topo(scen) IN
    /\ i \in T.bareIn /\ T.bareOut = {}
    /\ Running < MaxCalls
    /\ ~is_connected(qitems, i)
    /\ qitems' = [q \in DOMAIN qitems \cup {i} |->
                     IF q \in DOMAIN qitems THEN qitems[q] ELSE << >>]
    /\ calls' = Append(calls, "queue")
    /\ UNCHANGED <<scen, queues, circle_index, ref_count, value, events, locals,
                   sent, puts, got, seen>>

\* `inp.queue.put(item)`, by the caller, on a queue that exists
BareQueuePut(i, item) ==
    LET T == Topo(scen) IN
    /\ i \in T.bareIn /\ T.bareOut = {}
    /\ Running < MaxCalls
    /\ is_connected(qitems, i)
    /\ qitems' = [qitems EXCEPT ![i] = Append(@, item)]
    /\ calls' = Append(calls, "put")
    /\ UNCHANGED <<scen, queues, circle_index, ref_count, value, events, locals,
                   sent, puts, got, seen>>

\* the setter Input.value: `inp.value = v`
BareSetValue(i, v) ==
    LET T == Topo(scen) IN
    /\ i \in T.bareIn /\ T.bareOut = {}
    /\ Running < MaxCalls
    /\ IF TypeMismatch(InputType(T, i), v)
       THEN /\ exc' = [exc EXCEPT !["main"] = "TypeMismatch"]
            /\ UNCHANGED value
       ELSE /\ exc' = [exc EXCEPT !["main"] = "none"]
            /\ value' = [value EXCEPT ![i] = v]
    /\ calls' = Append(calls, "value")
    /\ UNCHANGED <<scen, queues, circle_index, ref_count, qitems, events,
                   pc, idx, inputs, res, pending, sent, puts, got, seen>>

NextBare ==
    \/ \E o \in {BareO, BareP} : BareConnect(o)
    \/ BareIncRef(BareP)
    \/ BareDecRef(BareP)
    \/ \E v \in BareItems : BareSend(BareO, v)
    \/ \E item \in BareItems : BarePut(BareP, item)
    \/ BareGet(BareI)
    \/ BareQueue(BareI)
    \/ \E item \in InputItems : BareQueuePut(BareI, item)
    \/ \E v \in InputItems : BareSetValue(BareI, v)
    \/ ExecOp("main")

Modes == {"ref", "value", "circle"}

\* a lone input of every mode and requiredness, without a value or with one
ScenInput(m, ty, r, v) ==
    [name |-> "Input", proc |-> "Echo", mode |-> m, type |-> ty,
     required |-> r, value |-> v]

InputScenarios ==
    {ScenInput(m, ty, r, v) :
        m \in {"queue", "sticky", "static"}, ty \in {"any", "int"},
        r \in {"required", "optional", "required-if-connected"},
        v \in {None, Msg("int", 3)}}

BareScenarios ==
    {ScenMode("Output", m, ty) : m \in Modes, ty \in {"any", "int"}}
    \cup {ScenMode("Port", m, "any") : m \in Modes}
    \cup {ScenMode("Edge", "queue", "any")}
    \cup InputScenarios

InitBare == \E s \in BareScenarios : InitOf(s)

\* one port at a time, driven by a single caller
SpecBare == InitBare /\ [][NextBare]_vars

\* what the caller puts on a port whose counts it has set
CountItems == {Msg("str", 1), EOF}

\* the caller of a bare graph port that sets the reference counts through
\* the port and through its queue, and then puts on the queue
NextCount ==
    \/ BareConnect(BareP)
    \/ BareIncRef(BareP)
    \/ BareDecRef(BareP)
    \/ QueueIncRef(BareP)
    \/ QueueDecRef(BareP)
    \/ \E item \in CountItems : BarePut(BareP, item)
    \/ ExecOp("main")

InitCount == \E m \in Modes : InitOf(ScenMode("Port", m, "any"))

\* a graph port and the two objects that count its references
SpecCount == InitCount /\ [][NextCount]_vars

\* the plain queue the caller connects to the output next to the port
TeeQueue == PlainQueue(MaxQueues + 1)

\* Output.connect of the bare output to the plain queue or to the queue of
\* the graph port (a RedirectQueue), in the order the caller chooses
TeeConnect(q) ==
    /\ scen.name = "Tee"
    /\ Wiring
    /\ q \in {TeeQueue, BareP}
    /\ q \notin Range(queues[BareO])
    /\ queues' = connect(queues, BareO, q)
    /\ calls' = Append(calls, "connect")
    /\ UNCHANGED <<scen, circle_index, ref_count, qitems, value, events, locals,
                   sent, puts, got, seen>>

NextTee ==
    \/ \E q \in {TeeQueue, BareP} : TeeConnect(q)
    \/ BareConnect(BareP)
    \/ BareIncRef(BareP)
    \/ \E v \in BareItems : BareSend(BareO, v)
    \/ ExecOp("main")

TeeScenarios == {ScenMode("Tee", m, "any") : m \in {"ref", "value"}}

InitTee == \E s \in TeeScenarios : InitOf(s)

\* an output with a graph port among its queues, driven by a single caller
SpecTee == InitTee /\ [][NextTee]_vars

(***************************************************************************)
(* Graph.stop and Graph.terminate, called by the caller's thread on the    *)
(* root graph while it runs.  The call is a list of steps the caller's     *)
(* thread takes in order, interleaved with the workers.                    *)
(***************************************************************************)
SetStop(n) == [op |-> "stop", q |-> <<n, "">>, item |-> None]
Fin(o) == [op |-> "fin", q |-> o, item |-> EOF]
SetStopped(n) == [op |-> "set", q |-> <<n, "">>, item |-> None]

\* n.stop(): Component.stop sets the flag, Graph.stop puts EOF on the queue
\* of every input of the graph, in the order of self.inputs
StopOps(T, n) ==
    IF n \in T.leaves THEN << SetStop(n) >>
    ELSE [k \in 1..Len(T.ins[n]) |-> Put(<<n, T.ins[n][k]>>, EOF)]

\* Node.finish: every output in turn, then the stopped event
FinishOps(T, n) ==
    [k \in 1..Len(T.outs[n]) |-> Fin(<<n, T.outs[n][k]>>)] \o << SetStopped(n) >>

\* `for instance in self._instances.values(): instance.stop()`
RECURSIVE StopAll(_, _)
StopAll(T, insts) ==
    IF insts = << >> THEN << >>
    ELSE StopOps(T, Head(insts)) \o StopAll(T, Tail(insts))

\* a variant of Graph.terminate that does not stop the instances
TerminateOps_nochildren(T, g) == StopOps(T, g) \o FinishOps(T, g)

\* Graph.terminate
TerminateOps(T, g) ==
    StopAll(T, T.instances[g]) \o StopOps(T, g) \o FinishOps(T, g)

\* the caller calls stop() or terminate() of the root graph, once
CallCtl(name, ops) ==
    /\ pc["main"] = "running"
    /\ pending["main"] = << >>
    /\ calls = << >>
    /\ pending' = [pending EXCEPT !["main"] = ops]
    /\ exc' = [exc EXCEPT !["main"] = "none"]
    /\ calls' = << name >>
    /\ UNCHANGED <<scen, ports, events, pc, idx, inputs, res, sent, puts, got, seen>>

CallStop == CallCtl("stop", StopOps(Topo(scen), Root(Topo(scen))))

CallTerminate == CallCtl("terminate", TerminateOps(Topo(scen), Root(Topo(scen))))

\* the caller's thread takes the next step of terminate() that is not a put
CtlOp ==
    LET op == Head(pending["main"])
        rest == Tail(pending["main"])
    IN
    /\ pending["main"] # << >>
    /\ op.op \in {"stop", "fin", "set"}
    /\ CASE op.op = "stop" ->
              \* Component.stop: `self._stop.set()`
              /\ stop' = [stop EXCEPT ![op.q[1]] = TRUE]
              /\ pending' = [pending EXCEPT !["main"] = rest]
              /\ UNCHANGED <<stopped, pc, exc, sent>>
         [] op.op = "fin" ->
              \* Node.finish: `if output.connected: output.send(EOF)`
              /\ IF connected(queues[op.q])
                 THEN CallSend("main", op.q, op.item, rest, pc["main"])
                 ELSE /\ pending' = [pending EXCEPT !["main"] = rest]
                      /\ UNCHANGED <<pc, exc, sent>>
              /\ UNCHANGED <<stop, stopped>>
         [] op.op = "set" ->
              \* Node.finish: `self._stopped.set()`
              /\ stopped' = set(Topo(scen), stopped, op.q[1])
              /\ pending' = [pending EXCEPT !["main"] = rest]
              /\ UNCHANGED <<stop, pc, exc, sent>>
    /\ UNCHANGED <<scen, ports, shutdowns, idx, inputs, res, puts, got, seen, calls>>

NextCtl == NextFlow \/ CallStop \/ CallTerminate \/ CtlOp

CtlScenarios == {Scen("InOut"), Scen("Spare"), Scen("Wrapped")}

InitCtl == \E s \in CtlScenarios : InitOf(s)

\* flows in which the caller may stop or terminate the root graph
SpecCtl == InitCtl /\ [][NextCtl]_vars

\* every thread that can take a step eventually takes one; whether the
\* caller ever puts anything more is left open
FairCtl ==
    /\ SpecCtl
    /\ WF_vars(Run)
    /\ \A t \in AllThreads : WF_vars(Step(t))
    /\ WF_vars(CtlOp)

\* the caller calls stop() of leaf n of a running flow, once
CallStopLeaf(n) ==
    /\ n \in Topo(scen).leaves
    /\ CallCtl("stop_leaf", StopOps(Topo(scen), n))

NextLeaf == NextFlow \/ (\E n \in AllThreads : CallStopLeaf(n)) \/ CtlOp

LeafScenarios == {Scen("InOut"), Scen("Join"), Scen("Isolated")}

InitLeaf == \E s \in LeafScenarios : InitOf(s)

\* flows in which the caller may stop a leaf from outside
SpecLeaf == InitLeaf /\ [][NextLeaf]_vars

\* every thread that can take a step eventually takes one; whether the
\* caller ever puts anything more is left open
FairLeaf ==
    /\ SpecLeaf
    /\ WF_vars(Run)
    /\ \A t \in AllThreads : WF_vars(Step(t))
    /\ WF_vars(CtlOp)

(***************************************************************************)
(* Graph.__init__ on a list of connections that may be wrong: the ids and  *)
(* pins of S2, an instance that does not exist and a pin nobody has.       *)
(***************************************************************************)
Ends == {This, "echo", "ghost"} \X {"inMsg", "outMsg", "inp", "out", "zz"}

AnyConns == {Conn(f[1], f[2], t[1], t[2]) : f \in Ends, t \in Ends}

\* the two connections of S2
GoodConns == {Conn(This, "inMsg", "echo", "inp"), Conn("echo", "out", This, "outMsg")}

\* one connection, or a connection of S2 followed by one connection
ConnLists ==
    {<< c >> : c \in AnyConns} \cup {<< c, d >> : c \in GoodConns, d \in AnyConns}

ScenWire(conns) ==
    [name |-> "Wire", proc |-> "Echo", mode |-> "ref", type |-> "any",
     conns |-> conns]

\* Graph(instances=..., connections=conns, inputs=..., outputs=...)
Construct ==
    LET T == Topo(scen)
        r == WireChecked(queues, T, Root(T), scen.conns)
    IN  /\ scen.name = "Wire"
        /\ calls = << >>
        /\ queues' = r.qs
        /\ qitems' = Create(qitems, T, r.qs)
        /\ exc' = [exc EXCEPT !["main"] = r.err]
        /\ calls' = << "Graph" >>
        /\ UNCHANGED <<scen, circle_index, ref_count, value, events,
                       pc, idx, inputs, res, pending, sent, puts, got, seen>>

\* graph.run(), on the graph the constructor returned
Start ==
    /\ calls = << "Graph" >>
    /\ exc["main"] = "none"
    /\ Run

\* the workers run up to their first get(): the caller puts nothing
NextWire ==
    \/ Construct
    \/ Start
    \/ \E t \in AllThreads : WorkerLoop(t) \/ WorkerRead(t)

InitWire == \E conns \in ConnLists : InitOf(ScenWire(conns))

\* the construction of a graph from any of the connection lists
SpecWire == InitWire /\ [][NextWire]_vars

(***************************************************************************)
(* Graph.from_yaml on the instances of a graph definition.                 *)
(***************************************************************************)
\* an instance definition without the key "macroId"
NoMacro == "-"

\* `ins["macroId"] not in ["InlineValue", "GetAttribute"]`
SupportedMacros == {"InlineValue", "GetAttribute"}

\* Graph.from_yaml: whether the instance makes it raise
UnsupportedMacro(macroId) ==
    macroId # NoMacro /\ macroId \notin SupportedMacros

\* `ins["nodeId"] = ins["macroId"]`, then Node.from_yaml calls create(nodeId)
NodeClass(ins) == IF ins.macroId # NoMacro THEN ins.macroId ELSE ins.nodeId

\* `for ins in yml.get("instances", [])`: the classes created, up to an error
RECURSIVE LoadInstances(_, _)
LoadInstances(made, inss) ==
    IF inss = << >> THEN [made |-> made, err |-> "none"]
    ELSE IF UnsupportedMacro(Head(inss).macroId)
    THEN [made |-> made, err |-> "UnsupportedMacro"]
    ELSE LoadInstances(Append(made, NodeClass(Head(inss))), Tail(inss))

MacroIds == {NoMacro, "InlineValue", "Conditional", "GetAttribute", "Http", "Switch"}

InstanceDefs == [nodeId : {"Echo", "Capitalize"}, macroId : MacroIds]

InstanceLists ==
    {<< a >> : a \in InstanceDefs} \cup {<< a, b >> : a, b \in InstanceDefs}

ScenLoad(inss) ==
    [name |-> "Load", proc |-> "Echo", mode |-> "ref", type |-> "any",
     instances |-> inss]

\* Graph.from_yaml(create, yml): the calls of create, then the constructor
FromYaml ==
    LET r == LoadInstances(<< >>, scen.instances) IN
    /\ scen.name = "Load"
    /\ calls = << >>
    /\ calls' = << "from_yaml" >> \o r.made
                   \o (IF r.err = "none" THEN << "Graph" >> ELSE << >>)
    /\ exc' = [exc EXCEPT !["main"] = r.err]
    /\ UNCHANGED <<scen, ports, events, pc, idx, inputs, res, pending,
                   sent, puts, got, seen>>

InitLoad == \E inss \in InstanceLists : InitOf(ScenLoad(inss))

\* the loading of a graph definition with any of the instance lists
SpecLoad == InitLoad /\ [][FromYaml]_vars

(***************************************************************************)
(* Graph.to_dict, and Graph.from_yaml on what it returned.  A Python dict  *)
(* is a function from its keys, an object a record with its class.         *)
(***************************************************************************)
\* dict.get(key, default)
Get(d, key, default) == IF key \in DOMAIN d THEN d[key] ELSE default

\* Connection.to_dict
ConnectionToDict(c) ==
    [from |-> [insId |-> c.from[1], pinId |-> c.from[2]],
     to |-> [insId |-> c.to[1], pinId |-> c.to[2]],
     delayed |-> c.delayed,
     hidden |-> c.hidden]

\* Connection.from_yaml
ConnectionFromYaml(yml) ==
    [from |-> <<yml.from.insId, yml.from.pinId>>,
     to |-> <<yml.to.insId, yml.to.pinId>>,
     delayed |-> Get(yml, "delayed", FALSE),
     hidden |-> Get(yml, "hidden", FALSE)]

\* Node.to_dict
NodeToDict(n) ==
    [id |-> n.id, nodeId |-> n.node_type, displayName |-> n.display_name]

\* Node.from_yaml, with a factory that knows every class, and Node.__init__
NodeFromYaml(yml) ==
    [id |-> yml.id,
     node_type |-> yml.nodeId,
     display_name |-> IF Get(yml, "displayName", "") # ""
                      THEN yml.displayName ELSE yml.nodeId]

\* a dict, as a definition holds one for every port
Dict(items) == [class |-> "dict", items |-> items]

\* GraphPort(id=k, **v), after "mode" became `required`
GraphPort(k, v) ==
    [class |-> "GraphPort", id |-> k, required |-> Get(v, "mode", "required")]

\* `"mode" in v` and `**v` raise TypeError on anything that is not a mapping
IsMapping(v) == v.class = "dict"

\* the graph before anything was loaded
NoGraph == [instances |-> << >>, connections |-> << >>,
            inputs |-> << >>, outputs |-> << >>]

\* Graph.to_dict: the ports are the port objects themselves
GraphToDict(g) ==
    [instances |-> [i \in DOMAIN g.instances |-> NodeToDict(g.instances[i])],
     connections |-> [i \in DOMAIN g.connections |-> ConnectionToDict(g.connections[i])],
     inputs |-> g.inputs,
     outputs |-> g.outputs]

\* Graph.from_yaml: instances, connections, inputs, outputs, in that order,
\* up to the first error
GraphFromYaml(yml) ==
    LET inss == Get(yml, "instances", << >>)
        conns == Get(yml, "connections", << >>)
        ins == Get(yml, "inputs", << >>)
        outs == Get(yml, "outputs", << >>)
    IN  IF \E i \in DOMAIN inss : UnsupportedMacro(Get(inss[i], "macroId", NoMacro))
        THEN [err |-> "UnsupportedMacro", graph |-> NoGraph]
        ELSE IF \E k \in DOMAIN ins \cup DOMAIN outs :
                    ~IsMapping(IF k \in DOMAIN ins THEN ins[k] ELSE outs[k])
        THEN [err |-> "TypeError", graph |-> NoGraph]
        ELSE [err |-> "none",
              graph |-> [instances |-> [i \in DOMAIN inss |-> NodeFromYaml(inss[i])],
                         connections |-> [i \in DOMAIN conns |-> ConnectionFromYaml(conns[i])],
                         inputs |-> [k \in DOMAIN ins |-> GraphPort(k, ins[k].items)],
                         outputs |-> [k \in DOMAIN outs |-> GraphPort(k, outs[k].items)]]]

\* the flags a connection definition may carry: none, one or both
FlagDefs ==
    {<< >>} \cup {("delayed" :> d) : d \in BOOLEAN} \cup {("hidden" :> h) : h \in BOOLEAN}
        \cup {("delayed" :> d) @@ ("hidden" :> h) : d, h \in BOOLEAN}

\* the definition of a connection between two instances
ConnDef(fi, ti, flags) ==
    [from |-> [insId |-> fi, pinId |-> "out"], to |-> [insId |-> ti, pinId |-> "inp"]]
        @@ flags

ConnDefLists ==
    {<< >>} \cup {<< ConnDef("a", "b", f) >> : f \in FlagDefs}
        \cup {<< ConnDef("a", "b", f), ConnDef("b", "a", h) >> : f, h \in FlagDefs}

\* the port definitions: no port, a port, an optional port
InputDefs ==
    {<< >>, ("inp" :> Dict(<< >>)), ("inp" :> Dict([mode |-> "optional"]))}

OutputDefs == {<< >>, ("out" :> Dict(<< >>))}

\* graph definitions with two instances of Echo
GraphDefs ==
    {[instances |-> << [id |-> "a", nodeId |-> "Echo"],
                       [id |-> "b", nodeId |-> "Echo", displayName |-> "B"] >>,
      connections |-> cs, inputs |-> i, outputs |-> o] :
        cs \in ConnDefLists, i \in InputDefs, o \in OutputDefs}

ScenTrip(yml) ==
    [name |-> "Trip", proc |-> "Echo", mode |-> "ref", type |-> "any",
     yml |-> yml, graph |-> NoGraph, dict |-> << >>, graph2 |-> NoGraph]

\* Graph.from_yaml(create, yml), on the definition first and then on the
\* dictionary to_dict returned
TripFromYaml ==
    LET first == calls = << >>
        r == GraphFromYaml(IF first THEN scen.yml ELSE scen.dict)
    IN  /\ scen.name = "Trip"
        /\ calls \in {<< >>, << "from_yaml", "to_dict" >>}
        /\ calls' = Append(calls, "from_yaml")
        /\ exc' = [exc EXCEPT !["main"] = r.err]
        /\ scen' = IF first THEN [scen EXCEPT !.graph = r.graph]
                   ELSE [scen EXCEPT !.graph2 = r.graph]
        /\ UNCHANGED <<ports, events, pc, idx, inputs, res, pending,
                       sent, puts, got, seen>>

\* graph.to_dict(), on the graph that was loaded
TripToDict ==
    /\ scen.name = "Trip"
    /\ calls = << "from_yaml" >>
    /\ exc["main"] = "none"
    /\ calls' = Append(calls, "to_dict")
    /\ scen' = [scen EXCEPT !.dict = GraphToDict(scen.graph)]
    /\ UNCHANGED <<ports, events, locals, sent, puts, got, seen>>

NextTrip == TripFromYaml \/ TripToDict

InitTrip == \E yml \in GraphDefs : InitOf(ScenTrip(yml))

\* a graph is loaded, turned into a dictionary and loaded from that
SpecTrip == InitTrip /\ [][NextTrip]_vars

(***************************************************************************)
(* Fair scheduling: every thread that can take a step eventually takes     *)
(* one, and the caller goes on until it has closed every exposed input.    *)
(***************************************************************************)
Fairness == WF_vars(Drive) /\ \A t \in AllThreads : WF_vars(Step(t))

\* the flows of SpecFlow with at most two leaves
LineScenarios == FlowScenarios \ {Scen("FanIn")}

InitLine == \E s \in LineScenarios : InitOf(s)

FairFlow == InitLine /\ [][NextFlow]_vars /\ Fairness

(***************************************************************************)
(* Properties.                                                             *)
(***************************************************************************)
AllStopped == \A n \in Nodes(Topo(scen)) : stopped[n]

\* every exposed input of the root received EOF
InputsClosed ==
    LET T == Topo(scen) IN
    \A p \in PortsOf(Root(T), T.ins[Root(T)]) : Closed(puts[p])

\* C1: under fair scheduling, once every exposed input of a flow has
\* received EOF (its sources stop by themselves), the stopped event of every
\* node and of the root is eventually set.
C1_EOFTermination == InputsClosed ~> AllStopped

FairFail == SpecFail /\ Fairness

Last(s) == s[Len(s)]

\* the last thing leaf t sent on each of its connected outputs is EOF
OutputsClosed(t) ==
    LET T == Topo(scen) IN
    \A o \in PortsOf(t, T.outs[t]) :
        queues[o] # << >> => sent[o] # << >> /\ is_EOF(Last(sent[o]))

FatalErrors == {"TypeMismatch", "UnconnectedOutput", "UserException"}

\* the worker of leaf t died of one of the fatal errors
Died(t) == pc[t] = "raised" /\ exc[t] \in FatalErrors

\* C2: when the worker of a leaf has died of a type mismatch, of a send on
\* an output without queues or of an exception of process, its stop flag
\* and its stopped event are set and EOF was sent on its connected outputs.
C2_FatalErrorClosesNode ==
    \A t \in Topo(scen).leaves :
        Died(t) => stop[t] /\ stopped[t] /\ OutputsClosed(t)

\* Flow.run_sync returned: the root stopped and shutdown() was called
Returned ==
    /\ pc["main"] = "done"
    /\ stopped[Root(Topo(scen))]
    /\ shutdowns[Root(Topo(scen))] = 1

\* C3: once a child of the graph died of a fatal error, the stopped event of
\* every node is eventually set and run_sync returns after shutdown().
C3_GraphCompletesAfterDeath ==
    (\E t \in Topo(scen).leaves : Died(t)) ~> (AllStopped /\ Returned)

\* the worker of leaf t found a key of the returned mapping that is no output
Unknown(t) == exc[t] = "UnknownOutput"

\* what holds of leaf t from the unknown key on
UnknownOutputGuard(t) ==
    /\ stop[t]
    /\ pc[t] \in {"finish", "raised"}
    /\ res[t] = << >>
    /\ pc[t] = "raised" => stopped[t] /\ OutputsClosed(t)

\* C4: once process returned a key that is not a declared output, the worker
\* is stopping with an error, never invokes process again, and when it has
\* raised, EOF was sent on its connected outputs and its stopped event is set.
C4_UnknownOutputGuard ==
    /\ [](\A t \in Topo(scen).leaves : Unknown(t) => UnknownOutputGuard(t))
    /\ [][\A t \in Topo(scen).leaves : Unknown(t) => seen'[t] = seen[t]]_vars

\* the worker raised the unknown-output error after the value of the known
\* key and then EOF were sent on the connected output
C4_Witness ==
    /\ scen.proc = "InvalidSend"
    /\ pc["echo"] = "raised" /\ Unknown("echo")
    /\ stopped["echo"]
    /\ sent[<<"echo", "out">>] = << Msg("str", 1), EOF >>
    /\ Len(seen["echo"]) = 1

\* sequence s without its first n occurrences of x
RECURSIVE DropFirst(_, _, _)
DropFirst(s, x, n) ==
    IF s = << >> THEN << >>
    ELSE IF n > 0 /\ Head(s) = x THEN DropFirst(Tail(s), x, n - 1)
    ELSE << Head(s) >> \o DropFirst(Tail(s), x, n)

IsPrefix(s, t) == Len(s) <= Len(t) /\ s = SubSeq(t, 1, Len(s))

\* RedirectQueue.ref_count of the bare graph port when its wiring ended:
\* the inc calls minus the dec calls, made on the port or on its queue
RefCount == CountIn(calls, IncCalls) - CountIn(calls, DecCalls)

\* what a graph port of reference count R >= 1 forwards of the items put:
\* everything but the first R-1 EOFs
Forwarded(items) == DropFirst(items, EOF, RefCount - 1)

\* C5: a graph port whose reference count is R >= 1 forwards none of the
\* first R-1 EOFs put on it, forwards the R-th EOF, and forwards every other
\* value at once: what it sent downstream is what was put without the first
\* R-1 EOFs, and in mode ref every connected queue holds just that.
C5_RefCountedEOF ==
    (scen.name = "Port" /\ RefCount >= 1) =>
        /\ IsPrefix(sent[BareP], Forwarded(puts[BareP]))
        /\ pending["main"] = << >> =>
              /\ sent[BareP] = Forwarded(puts[BareP])
              /\ (scen.mode = "ref" /\ exc["main"] = "none") =>
                    \A i \in DOMAIN queues[BareP] :
                        qitems[queues[BareP][i]] = Forwarded(puts[BareP])

\* a port of reference count 2 that received a value and two EOFs passed
\* the value and the second EOF on to its queue
C5_Witness ==
    /\ scen.name = "Port" /\ scen.mode = "ref"
    /\ RefCount = 2
    /\ pending["main"] = << >>
    /\ puts[BareP] = << Msg("str", 1), EOF, EOF >>
    /\ Len(queues[BareP]) = 1
    /\ qitems[queues[BareP][1]] = << Msg("str", 1), EOF >>

NonEOF(s) == SelectSeq(s, LAMBDA x : ~is_EOF(x))

\* no item of s that follows an EOF is a value
EOFLast(s) == \A i, j \in DOMAIN s : (i < j /\ is_EOF(s[i])) => is_EOF(s[j])

\* C6: when the three leaves are wired to the same exposed output, the queue
\* connected to that output receives the values of all branches before it
\* receives any EOF: an EOF on it is preceded by the results of the three
\* leaves for every value that was put, and no value follows it.
C6_FanInEOFLast ==
    scen.name = "FanIn" =>
        /\ EOFLast(qitems[Out_q])
        /\ Closed(qitems[Out_q]) =>
              /\ Closed(puts[<<"g", "str">>])
              /\ Len(NonEOF(qitems[Out_q])) = 3 * NumValues(puts[<<"g", "str">>])

\* the items the caller's sends put on the i-th queue of the bare output
QueueOf(i) == qitems[queues[BareO][i]]

\* a send() call on the bare output has returned without an error
SendReturned ==
    /\ scen.name = "Output"
    /\ sent[BareO] # << >>
    /\ pending["main"] = << >>
    /\ exc["main"] = "none"

\* C7: when send(EOF) on an output with two or more queues has returned,
\* every one of the queues has received the EOF, in every output mode.
C7_EOFBroadcast ==
    (SendReturned /\ Len(queues[BareO]) >= 2 /\ is_EOF(Last(sent[BareO]))) =>
        \A i \in DOMAIN queues[BareO] :
            QueueOf(i) # << >> /\ is_EOF(Last(QueueOf(i)))

\* the items of s at the positions k (counted from 0) with k mod n = i
RECURSIVE Stride(_, _, _)
Stride(s, i, n) ==
    IF s = << >> THEN << >>
    ELSE (IF i = 0 THEN << Head(s) >> ELSE << >>)
         \o Stride(Tail(s), (i + n - 1) % n, n)

\* C8: in mode circle with N >= 2 queues, the k-th value sent that is not
\* EOF is on queue k mod N and on no other: the values of queue i are those
\* of the positions i, i+N, i+2N, ... of the values sent, in that order.
C8_RoundRobin ==
    (SendReturned /\ scen.mode = "circle" /\ scen.type = "any"
        /\ Len(queues[BareO]) >= 2) =>
        \A i \in DOMAIN queues[BareO] :
            NonEOF(QueueOf(i)) = Stride(NonEOF(sent[BareO]), i - 1, Len(queues[BareO]))

\* C9: on an edge from one output to one queue-mode input, what get()
\* returned so far, followed by what is still in the queue, is what was
\* passed to send(), in the same order: nothing lost, nothing duplicated.
C9_EdgeFIFO ==
    (scen.name = "Edge" /\ Len(queues[BareO]) = 1) =>
        /\ IsPrefix(got[BareI] \o qitems[BareI], sent[BareO])
        /\ pending["main"] = << >> => got[BareI] \o qitems[BareI] = sent[BareO]

\* two different values were sent and get() returned both, in that order
C9_Witness ==
    /\ scen.name = "Edge"
    /\ sent[BareO] = << Msg("str", 1), Msg("int", 1) >>
    /\ got[BareI] = sent[BareO]

\* the exposed input of the root, in a flow that has one
RootInput == <<Root(Topo(scen)), Topo(scen).ins[Root(Topo(scen))][1]>>

\* what the interior component of the flow makes of value v
Expected(v) == IF scen.proc = "Capitalize" THEN upper(v) ELSE v

\* the results for the values put on the exposed input, in the order of the puts
Results ==
    LET vs == NonEOF(puts[RootInput]) IN [i \in DOMAIN vs |-> Expected(vs[i])]

\* C10: in a graph input -> one single-input leaf -> output (nested or not),
\* the outside queue receives the leaf's results in the order of the puts,
\* no value after an EOF, and once the graph has stopped it holds exactly
\* the results of all values put, followed by EOF.
C10_ValuesCrossInOrder ==
    scen.name \in {"InOut", "Wrapped"} =>
        /\ IsPrefix(NonEOF(qitems[Out_q]), Results)
        /\ EOFLast(qitems[Out_q])
        /\ stopped[Root(Topo(scen))] =>
              NonEOF(qitems[Out_q]) = Results /\ Closed(qitems[Out_q])

\* two values were put, the graph has stopped and the outside queue holds
\* their upper-case results in order and then EOF
C10_Witness ==
    /\ scen.name = "InOut" /\ scen.proc = "Capitalize"
    /\ puts[RootInput] = << Msg("str", 2), Msg("str", 1), EOF >>
    /\ stopped["g"]
    /\ SubSeq(qitems[Out_q], 1, 3) = << upper(Msg("str", 2)), upper(Msg("str", 1)), EOF >>

RepWord == <<"rep", "word">>
RepTimes == <<"rep", "times">>

Sticky == scen.name = "Repeat" /\ scen.mode = "sticky"

\* the worker of rep is about to call get() on `times`
ReadsTimes == pc["rep"] = "read" /\ idx["rep"] = 2

\* get() on `times` returns in this step
GotTimes == got'[RepTimes] # got[RepTimes]

\* the queue of `times` is empty or an EOF is its next item
NoNewTimes == qitems[RepTimes] = << >> \/ is_EOF(Head(qitems[RepTimes]))

\* every invocation of process received what the two get() calls of its
\* round returned
SeenWhatWasRead ==
    \A k \in DOMAIN seen["rep"] :
        seen["rep"][k] = << got[RepWord][k], got[RepTimes][k] >>

\* C11: once the sticky input has latched a value v0, a read of it does not
\* wait; while its queue is empty or holds an EOF next, the read returns v0,
\* leaves v0 latched and the worker goes on to the invocation of process,
\* which receives it; the node stops only when EOF was read on the queue
\* input.
C11_StickyInvariance ==
    /\ []((Sticky /\ ReadsTimes /\ value[RepTimes] # None) =>
              ENABLED WorkerRead("rep"))
    /\ [][(Sticky /\ value[RepTimes] # None /\ NoNewTimes /\ GotTimes) =>
              /\ value'[RepTimes] = value[RepTimes]
              /\ Last(got'[RepTimes]) = value[RepTimes]
              /\ pc'["rep"] = "process"
              /\ stop'["rep"] = stop["rep"]]_vars
    /\ [](Sticky => SeenWhatWasRead /\ (stop["rep"] => Closed(got[RepWord])))

\* the sticky input latched 2, then took an EOF, and process was invoked a
\* second time with 2; the node has not stopped
C11_Witness ==
    /\ Sticky
    /\ puts[<<"g", "times">>] = << Msg("int", 2), EOF >>
    /\ qitems[RepTimes] = << >>
    /\ value[RepTimes] = Msg("int", 2)
    /\ seen["rep"] = << << Msg("str", 1), Msg("int", 2) >>,
                        << Msg("str", 2), Msg("int", 2) >> >>
    /\ ~stop["rep"]

\* C12: when the caller puts the word of a round and then a new sticky value
\* before it reads the output of the round, the invocation of process for
\* that round (the second or a later one, so that a value is latched) uses
\* the new sticky value.
C12_NewStickyApplies ==
    \A k \in DOMAIN seen["rep"] :
        (k >= 2 /\ k \in DOMAIN puts[<<"g", "times">>]
             /\ ~is_EOF(puts[<<"g", "times">>][k])) =>
            seen["rep"][k][2] = puts[<<"g", "times">>][k]

Static == scen.name = "Repeat" /\ scen.mode = "static"

\* C13: a static input with configured value v returns v from every get(),
\* a read of it never waits, nothing is ever taken from its queue whatever
\* is put there, and it does not count for the stop of the worker: the
\* worker stops when, and only when, the queue input returned EOF.
C13_StaticInvariance ==
    Static =>
        /\ ReadsTimes => ENABLED WorkerRead("rep")
        /\ value[RepTimes] = StaticTimes
        /\ \A k \in DOMAIN got[RepTimes] : got[RepTimes][k] = StaticTimes
        /\ IsPrefix(qitems[RepTimes], puts[<<"g", "times">>])
        /\ pending["main"] = << >> => qitems[RepTimes] = puts[<<"g", "times">>]
        /\ SeenWhatWasRead
        /\ \A k \in DOMAIN seen["rep"] : ~is_EOF(seen["rep"][k][1])
        /\ stop["rep"] => Closed(got[RepWord])
        /\ (Closed(got[RepWord]) /\ pc["rep"] \notin {"read", "process"}) => stop["rep"]

\* process was invoked twice with the static value while a value and an EOF
\* stayed in the queue of the static input, and the EOF on the queue input
\* stopped the node
C13_Witness ==
    /\ Static
    /\ qitems[RepTimes] = << Msg("int", 2), EOF >>
    /\ seen["rep"] = << << Msg("str", 1), StaticTimes >>,
                        << Msg("str", 2), StaticTimes >> >>
    /\ stopped["rep"]

\* value v may pass an output declared with type ty
Conforms(ty, v) == ty = "any" \/ v.type = ty \/ v.type = "EOF"

\* the step is a call of send() on the bare output
SendCalled == scen.name = "Output" /\ calls' = Append(calls, "send")

\* C14: no value whose type differs from the declared type of the output is
\* ever on one of its queues; a send() of such a value raises the type error
\* and leaves every queue and the cursor as they were; a send() of EOF on a
\* connected output raises nothing, whatever the declared type, and once it
\* has returned the EOF is on a queue.
C14_TypeGating ==
    /\ [](scen.name = "Output" =>
            \A i \in DOMAIN queues[BareO] : \A k \in DOMAIN QueueOf(i) :
                Conforms(scen.type, QueueOf(i)[k]))
    /\ [][SendCalled =>
            LET v == Last(sent'[BareO]) IN
            /\ ~Conforms(scen.type, v) =>
                  /\ exc'["main"] = "TypeMismatch"
                  /\ pending'["main"] = << >>
                  /\ qitems' = qitems
                  /\ circle_index' = circle_index
            /\ (is_EOF(v) /\ queues[BareO] # << >>) =>
                  /\ exc'["main"] = "none"
                  /\ pending'["main"] # << >>]_vars
    /\ []((SendReturned /\ is_EOF(Last(sent[BareO]))) =>
            \E i \in DOMAIN queues[BareO] :
                QueueOf(i) # << >> /\ is_EOF(Last(QueueOf(i))))

\* on an output of type int with two queues, an int was sent, then a str,
\* then EOF: the str raised, the int and the EOF are on the queues
C14_Witness ==
    /\ scen = ScenMode("Output", "ref", "int")
    /\ Len(queues[BareO]) = 2
    /\ sent[BareO] = << Msg("int", 1), Msg("str", 1), EOF >>
    /\ pending["main"] = << >>
    /\ exc["main"] = "none"
    /\ QueueOf(1) = << Msg("int", 1), EOF >>
    /\ QueueOf(2) = << Msg("int", 1), EOF >>

\* the values sent on the bare output that passed its type check
Passed ==
    LET Test(v) == Conforms(scen.type, v) IN SelectSeq(sent[BareO], Test)

\* an object that can be changed in place
Mutable(v) == v.type \notin {"str", "int", "None"}

\* a and b have the same type and content
SameContent(a, b) == a.type = b.type /\ a.val = b.val

\* the bare output has two or more queues and is in mode m
FanOut(m) == scen.name = "Output" /\ scen.mode = m /\ Len(queues[BareO]) >= 2

\* C15: in mode value with N >= 2 queues, the first queue holds the objects
\* that were sent, every other queue holds objects of the same content in
\* the same order, all of them once the send has returned, and no mutable
\* object on one queue is an object that is on another queue.
C15_ValueFanOut ==
    FanOut("value") =>
        /\ IsPrefix(QueueOf(1), Passed)
        /\ \A i \in DOMAIN queues[BareO] :
              /\ Len(QueueOf(i)) <= Len(Passed)
              /\ \A k \in DOMAIN QueueOf(i) : SameContent(QueueOf(i)[k], Passed[k])
              /\ pending["main"] = << >> => Len(QueueOf(i)) = Len(Passed)
        /\ \A i, j \in DOMAIN queues[BareO] :
              \A k \in DOMAIN QueueOf(i), l \in DOMAIN QueueOf(j) :
                  (i # j /\ Mutable(QueueOf(i)[k])) => QueueOf(i)[k] # QueueOf(j)[l]

\* the same list was sent twice to three queues: the first queue holds it
\* twice, the other two hold four copies that are four different objects
C15_Witness ==
    /\ FanOut("value")
    /\ Len(queues[BareO]) = 3
    /\ sent[BareO] = << Msg("list", 1), Msg("list", 1) >>
    /\ pending["main"] = << >>
    /\ QueueOf(1) = sent[BareO]
    /\ Cardinality({QueueOf(2)[1], QueueOf(2)[2], QueueOf(3)[1], QueueOf(3)[2]}) = 4

\* C16: in mode ref with N >= 2 queues, every queue holds the very objects
\* that were sent, in the order of the sends: a prefix of them while a send
\* is under way, all of them once it has returned.
C16_RefFanOutOrder ==
    FanOut("ref") =>
        \A i \in DOMAIN queues[BareO] :
            /\ IsPrefix(QueueOf(i), Passed)
            /\ pending["main"] = << >> => QueueOf(i) = Passed

\* three different objects were sent to three queues
C16_Witness ==
    /\ FanOut("ref")
    /\ Len(queues[BareO]) = 3
    /\ sent[BareO] = << Msg("list", 1), Msg("str", 1), EOF >>
    /\ pending["main"] = << >>
    /\ \A i \in 1..3 : QueueOf(i) = sent[BareO]

\* C17: a send() on an output with no queue raises, for every value and for
\* EOF (the error of the missing queues when the value passes the type
\* check), and leaves the queue list, the cursor and every queue as they
\* were; the output stays without queues and with its cursor at 0.
C17_UnconnectedOutput ==
    /\ [][(SendCalled /\ queues[BareO] = << >>) =>
            /\ exc'["main"] \in {"TypeMismatch", "UnconnectedOutput"}
            /\ Conforms(scen.type, Last(sent'[BareO])) =>
                  exc'["main"] = "UnconnectedOutput"
            /\ pending'["main"] = << >>
            /\ queues' = queues
            /\ circle_index' = circle_index
            /\ qitems' = qitems]_vars
    /\ []((scen.name = "Output" /\ sent[BareO] # << >> /\ queues[BareO] = << >>) =>
            /\ exc["main"] # "none"
            /\ circle_index[BareO] = 0
            /\ \A q \in DOMAIN qitems : qitems[q] = << >>)

\* a value and then EOF were sent on an output without queues: both raised
C17_Witness ==
    /\ scen.name = "Output"
    /\ queues[BareO] = << >>
    /\ sent[BareO] = << Msg("int", 1), EOF >>
    /\ calls = << "send", "send" >>
    /\ exc["main"] = "UnconnectedOutput"
    /\ pending["main"] = << >>

\* what the queue of the sink's input received so far
Downstream == got[<<"sink", "inp">>] \o qitems[<<"sink", "inp">>]

\* what the source returns from process
Hello == Msg("str", 1)

\* C18: the queue downstream of the one-shot source never holds anything but
\* a prefix of its one value followed by EOF, process is never invoked a
\* second time, the source's stopped event is set only after exactly one
\* invocation with the value and the EOF downstream, and it is eventually set.
C18_OneShotSource ==
    /\ [](scen.name = "Isolated" =>
            /\ IsPrefix(Downstream, << Hello, EOF >>)
            /\ Len(seen["src"]) <= 1
            /\ stopped["src"] =>
                  /\ Downstream = << Hello, EOF >>
                  /\ Len(seen["src"]) = 1
                  /\ stop["src"])
    /\ (scen.name = "Isolated") ~> (scen.name = "Isolated" /\ stopped["src"])

\* the source has stopped after one invocation and the sink took the value
C18_Witness ==
    /\ scen.name = "Isolated"
    /\ stopped["src"]
    /\ seen["src"] = << << >> >>
    /\ got[<<"sink", "inp">>] = << Hello >>
    /\ qitems[<<"sink", "inp">>] = << EOF >>

\* the exposed inputs of the root graph
RootInputs == PortsOf(Root(Topo(scen)), Topo(scen).ins[Root(Topo(scen))])

\* what was put so far on the queue q that an exposed input is wired to:
\* the queue of a leaf's input, or the queue of the port of a nested graph
Received(q) == IF q \in DOMAIN qitems THEN got[q] \o qitems[q] ELSE puts[q]

\* the call `name` of the root graph is over: it returned or raised
CallOver(name) == calls = << name >> /\ pending["main"] = << >>

\* C19: once a call of stop() is over, EOF was put on every exposed input of
\* the graph and every queue an exposed input is wired to has received EOF,
\* whichever of the exposed inputs are wired; and after a call of stop() the
\* graph eventually sets its stopped event.
C19_StopClosesInputs ==
    /\ [](CallOver("stop") =>
            \A p \in RootInputs :
                /\ Closed(puts[p])
                /\ \A k \in DOMAIN queues[p] : Closed(Received(queues[p][k])))
    /\ (calls = << "stop" >>) ~> stopped[Root(Topo(scen))]

\* the step is the last one of a call of terminate(), which then returns
TerminateReturns ==
    /\ calls = << "terminate" >>
    /\ pending["main"] # << >>
    /\ Head(pending["main"]).op = "set"
    /\ pending'["main"] = << >>

\* instance n of the root graph was told to stop: the flag of a component is
\* set, EOF was put on every exposed input of a nested graph
ToldToStop(n) ==
    IF n \in Topo(scen).leaves THEN stop[n]
    ELSE \A p \in PortsOf(n, Topo(scen).ins[n]) : Closed(puts[p])

\* what terminate() has done to the root graph
Terminated ==
    LET T == Topo(scen) IN
    /\ \A n \in Range(T.instances[Root(T)]) : ToldToStop(n)
    /\ \A p \in RootInputs : Closed(puts[p])
    /\ \A o \in PortsOf(Root(T), T.outs[Root(T)]) :
          queues[o] # << >> =>
              /\ Closed(sent[o])
              /\ \A k \in DOMAIN queues[o] : Closed(qitems[queues[o][k]])
    /\ stopped[Root(T)]
    /\ exc["main"] = "none"

\* C20: when terminate() returns, every instance was told to stop, EOF was
\* put on every exposed input, EOF was sent on every connected output of
\* the graph and is on the queues connected to it, and the graph's stopped
\* event is set; and the call never waits: while it is under way the
\* caller's thread can always take its next step, whatever the instances do.
C20_TerminateAtOnce ==
    /\ [][TerminateReturns => Terminated']_vars
    /\ []((calls = << "terminate" >> /\ pending["main"] # << >>) =>
            ENABLED (ExecOp("main") \/ CtlOp))

\* terminate() has returned while the instance is still running: its flag is
\* set, its input holds the EOF, the outside queue holds the graph's EOF
C20_Witness ==
    /\ scen.name = "InOut"
    /\ CallOver("terminate")
    /\ Terminated
    /\ ~stopped["echo"]
    /\ Closed(qitems[<<"echo", "inp">>])
    /\ qitems[Out_q] = << EOF >>

\* stop() of leaf n was called from outside and has set its flag
StoppedFromOutside(n) ==
    /\ n \in Topo(scen).leaves
    /\ calls = << "stop_leaf" >>
    /\ pending["main"] = << >>
    /\ stop[n]

\* leaf n has sent EOF on each of its connected outputs and set stopped
Finished(n) ==
    /\ n \in Topo(scen).leaves
    /\ stopped[n]
    /\ \A o \in PortsOf(n, Topo(scen).outs[n]) :
          queues[o] # << >> => sent[o] # << >> /\ is_EOF(Last(sent[o]))

\* C21: after stop() was called from outside on a running leaf, whatever
\* its worker was doing, the leaf eventually has sent EOF on its connected
\* outputs and set its stopped event.
C21_ExternalStop ==
    \A n \in AllThreads : StoppedFromOutside(n) ~> Finished(n)

\* the step changes nothing of any worker thread: it is a step of the caller
CallerStep ==
    \A t \in DOMAIN pc : t # "main" =>
        /\ pc'[t] = pc[t]
        /\ pending'[t] = pending[t]
        /\ idx'[t] = idx[t]

\* C22: a step in which shutdown() is called is a step of the caller in
\* run_sync, taken when the root's stopped event is set; in that step
\* shutdown() of the root and of every instance below it is called, once;
\* no node's shutdown() is ever called before the root has stopped, nor twice.
C22_ShutdownAfterStop ==
    /\ [][shutdowns' # shutdowns =>
            /\ stopped[Root(Topo(scen))]
            /\ pc["main"] = "stopped"
            /\ pc'["main"] = "done"
            /\ CallerStep
            /\ \A n \in Nodes(Topo(scen)) : shutdowns'[n] = shutdowns[n] + 1]_vars
    /\ [](\A n \in Nodes(Topo(scen)) :
            /\ shutdowns[n] <= 1
            /\ shutdowns[n] = 1 => stopped[Root(Topo(scen))]
            /\ pc["main"] = "done" => shutdowns[n] = 1)

\* run_sync has returned from a nested graph: the root, the graph in it and
\* the leaf in that have each been shut down once
C22_Witness ==
    /\ scen.name = "Wrapped"
    /\ pc["main"] = "done"
    /\ stopped["g"] /\ stopped["sub"] /\ stopped["echo"]
    /\ shutdowns = [g |-> 1, sub |-> 1, echo |-> 1]

\* the end names an instance the graph has not, a pin the instance has not,
\* or, with "__this", a port the graph does not expose on that side
BadEnd(side, end) ==
    LET T == Topo(scen) IN
    IF end[1] = This
    THEN end[2] \notin Range(IF side = "from" THEN T.ins["g"] ELSE T.outs["g"])
    ELSE \/ end[1] \notin Range(T.instances["g"])
         \/ end[2] \notin Range(IF side = "from" THEN T.outs[end[1]] ELSE T.ins[end[1]])

\* some connection of the list has an end that is wrong
BadConns ==
    \E k \in DOMAIN scen.conns :
        BadEnd("from", scen.conns[k].from) \/ BadEnd("to", scen.conns[k].to)

\* C23: when a connection has a wrong end, on either side and whatever the
\* other end is, the constructor raises the wiring error, and no thread of
\* the graph is ever started.
C23_WiringValidation ==
    (scen.name = "Wire" /\ BadConns) =>
        /\ calls = << "Graph" >> => exc["main"] = "WiringError"
        /\ \A t \in DOMAIN pc : pc[t] = "created"

\* the constructor has raised on a connection from an exposed input to an
\* exposed output that does not exist, after it wired a right connection
C23_Witness ==
    /\ scen.name = "Wire"
    /\ scen.conns = << Conn(This, "inMsg", "echo", "inp"), Conn(This, "inMsg", This, "zz") >>
    /\ calls = << "Graph" >>
    /\ exc["main"] = "WiringError"
    /\ queues[<<"g", "inMsg">>] = << <<"echo", "inp">> >>

\* the macro names the graph loader is said to accept
AllowList == {"InlineValue", "Conditional", "GetAttribute", "Http"}

\* the macro instances of the definition that was loaded
MacroInstances ==
    {k \in DOMAIN scen.instances : scen.instances[k].macroId # "-"}

\* C24: a graph definition is loaded, and the graph built, when the macroId
\* of every macro instance is one of InlineValue, Conditional, GetAttribute,
\* Http; when one has another macroId the loader raises the unsupported
\* macro error and builds no graph.
C24_MacroAllowList ==
    (scen.name = "Load" /\ calls # << >>) =>
        IF \A k \in MacroInstances : scen.instances[k].macroId \in AllowList
        THEN exc["main"] = "none" /\ Last(calls) = "Graph"
        ELSE exc["main"] = "UnsupportedMacro" /\ Last(calls) # "Graph"

\* what the outside queue of the graph with the leaf inlined holds once the
\* graph has stopped: the leaf's results, the EOF the leaf's finish() sent
\* through the exposed output, and the EOF of the graph's own finish()
InlinedOutput == Results \o << EOF, EOF >>

\* C25: for every sequence put on the exposed input, the graph that holds
\* the leaf in a nested graph has, once it stopped, delivered to the outside
\* queue the same sequence of values and EOFs as the graph with the leaf
\* inlined.
C25_NestedEquivalence ==
    (scen.name \in {"InOut", "Wrapped"} /\ stopped[Root(Topo(scen))]) =>
        qitems[Out_q] = InlinedOutput

\* C26: the graph loaded from the dictionary to_dict() returned has the
\* instances, the connections (from, to, delayed, hidden) and the port
\* declarations of the graph to_dict() was called on, and the round trip
\* of each of its connections through to_dict and from_yaml gives the
\* connection back.
C26_RoundTrip ==
    (scen.name = "Trip" /\ calls = << "from_yaml", "to_dict", "from_yaml" >>) =>
        /\ exc["main"] = "none"
        /\ scen.graph2.instances = scen.graph.instances
        /\ scen.graph2.connections = scen.graph.connections
        /\ scen.graph2.inputs = scen.graph.inputs
        /\ scen.graph2.outputs = scen.graph.outputs
        /\ \A i \in DOMAIN scen.graph.connections :
              ConnectionFromYaml(ConnectionToDict(scen.graph.connections[i]))
                  = scen.graph.connections[i]

\* the children of graph g
Children(g) == Range(Topo(scen).instances[g])

\* the step is one of g's finish(): it sends EOF on an exposed output of g
FinishSendsEOF(g) ==
    /\ pc[g] = "finish"
    /\ idx'[g] = idx[g] + 1
    /\ \E o \in PortsOf(g, Topo(scen).outs[g]) : sent'[o] = Append(sent[o], EOF)

\* C27: a graph's stopped event is set, and its finish() sends EOF on its
\* outputs, only when the stopped event of every one of its instances is set.
C27_RootFiresLast ==
    /\ [](\A g \in Graphs(Topo(scen)) :
            stopped[g] => \A c \in Children(g) : stopped[c])
    /\ [][\A g \in Graphs(Topo(scen)) :
            FinishSendsEOF(g) => \A c \in Children(g) : stopped[c]]_vars

\* three leaves fan in to the exposed output; all have stopped, the graph's
\* finish() has sent its EOF after theirs and the graph has stopped
C27_Witness ==
    /\ scen.name = "FanIn"
    /\ stopped["echo"] /\ stopped["cap"] /\ stopped["greet"] /\ stopped["g"]
    /\ sent[<<"g", "out">>] # << >>
    /\ Last(sent[<<"g", "out">>]) = EOF
    /\ Len(SelectSeq(sent[<<"g", "out">>], is_EOF)) = 4

\* the queue-mode inputs of leaf t
QueueInputs(t) ==
    {i \in PortsOf(t, Topo(scen).ins[t]) : InputMode(Topo(scen), i) = "queue"}

\* the step ends a read round of leaf t
EndsRound(t) == pc[t] = "process" /\ pc'[t] # "process"

\* the step sets the stop flag of leaf t without a call of process
StopsByInputs(t) == ~stop[t] /\ stop'[t] /\ seen'[t] = seen[t]

\* C28: at the end of a read round the worker of a leaf stops, without
\* calling process, exactly when the leaf has a queue-mode input and get()
\* returned EOF on every queue-mode input in that round; what the sticky
\* and static inputs returned plays no part, and the stop flag of a leaf
\* without queue-mode inputs is only ever set by its process.
C28_TerminationRule ==
    /\ [][\A t \in Topo(scen).leaves :
            EndsRound(t) =>
                (StopsByInputs(t) <=>
                    /\ QueueInputs(t) # {}
                    /\ \A i \in QueueInputs(t) : is_EOF(Last(got[i])))]_vars
    /\ [](\A t \in Topo(scen).leaves :
            (QueueInputs(t) = {} /\ stop[t]) => seen[t] # << >>)

\* the leaf with a queue input and a sticky one went on after the EOF on
\* its sticky input and stopped on the EOF of its queue input
C28_Witness ==
    /\ scen.name = "Repeat" /\ scen.mode = "sticky"
    /\ puts[<<"g", "times">>] = << Msg("int", 2), EOF >>
    /\ Len(seen["rep"]) = 2
    /\ is_EOF(Last(got[<<"rep", "word">>]))
    /\ stop["rep"]

\* the two queue inputs of the joining leaf
JoinA == <<"join", "a">>
JoinB == <<"join", "b">>

\* C29: the k-th invocation of process of a leaf with two queue inputs
\* receives the k-th item put on the first input and the k-th item put on
\* the second, in the order the inputs are declared; every round takes one
\* item from each queue, the first input's before the second's, and each
\* item is taken once, in the order of the queue.
C29_ZippedJoin ==
    scen.name = "Join" =>
        /\ \A k \in DOMAIN seen["join"] :
              seen["join"][k] = << puts[<<"g", "x">>][k], puts[<<"g", "y">>][k] >>
        /\ Len(got[JoinA]) - Len(got[JoinB]) \in {0, 1}
        /\ Len(got[JoinB]) - Len(seen["join"]) \in {0, 1}
        /\ IsPrefix(got[JoinA] \o qitems[JoinA], puts[<<"g", "x">>])
        /\ IsPrefix(got[JoinB] \o qitems[JoinB], puts[<<"g", "y">>])

\* two rounds: the second value of one input met the second of the other,
\* although the values were put in opposite orders
C29_Witness ==
    /\ scen.name = "Join"
    /\ puts[<<"g", "x">>] = << Msg("str", 1), Msg("str", 2) >>
    /\ puts[<<"g", "y">>] = << Msg("str", 2), Msg("str", 1) >>
    /\ seen["join"] = << << Msg("str", 1), Msg("str", 2) >>,
                          << Msg("str", 2), Msg("str", 1) >> >>

\* the port a connection of graph h leads to
Target(h, conn) ==
    IF conn.to[1] = This THEN <<h, conn.to[2]>> ELSE conn.to

\* the number of connections wired into port p
Wired(p) ==
    LET T == Topo(scen) IN
    Cardinality(UNION {{<<h, k>> : k \in {j \in DOMAIN T.connections[h] :
                                             Target(h, T.connections[h][j]) = p}} :
                       h \in Graphs(T)})

\* C30: when the graph has been constructed, and before it runs, the
\* reference count of the redirect queue of each graph port is the number
\* of connections wired into the port.
C30_RefCountAtWiring ==
    pc["main"] = "created" =>
        \A p \in GraphPorts(Topo(scen)) : ref_count[p] = Wired(p)

\* the EOFs among the items of s
EOFs(s) == SelectSeq(s, is_EOF)

\* C31: once the wiring of a graph port is over its reference count never
\* increases; a count that wiring put above zero never falls below zero,
\* stays at zero once it is there, and the port forwards one EOF at most.
C31_ZeroIsTerminal ==
    /\ [][(scen.name = "Port" /\ ~Wiring) =>
              ref_count'[BareP] <= ref_count[BareP]]_vars
    /\ [][(scen.name = "Port" /\ RefCount >= 1 /\ ~Wiring /\ ref_count[BareP] = 0) =>
              ref_count'[BareP] = 0]_vars
    /\ [](scen.name = "Port" /\ RefCount >= 1 =>
              ref_count[BareP] >= 0 /\ Len(EOFs(sent[BareP])) <= 1)

\* the step sends something on an output of node n
Emits(n) == \E o \in PortsOf(n, Topo(scen).outs[n]) : sent'[o] # sent[o]

\* C32: once the stopped event of a node is set, nothing more is sent on
\* any output of the node, whatever the caller calls: no step of a finish()
\* of the node, and no other send, follows the event.
C32_FinishedIsFinal ==
    [][\A n \in Nodes(Topo(scen)) : stopped[n] => ~Emits(n)]_vars

\* everything that was ever put on queue q
Enqueued(q) ==
    IF q \in DOMAIN got THEN got[q] \o qitems[q]
    ELSE IF q \in DOMAIN qitems THEN qitems[q] ELSE puts[q]

\* C33: when the stopped event of a node is set, every queue connected to
\* an output of the node has received an EOF, whether the output carried a
\* value before or not.
C33_EOFBeforeStopped ==
    \A n \in Nodes(Topo(scen)) :
        stopped[n] =>
            \A o \in PortsOf(n, Topo(scen).outs[n]) :
                \A i \in DOMAIN queues[o] : Closed(Enqueued(queues[o][i]))

\* C34: a read of the sticky input that has no value yet waits while the
\* queue is empty; when the first item it takes is a value, the read takes
\* it from the queue, latches it and returns it; and a read with a value
\* latched and the queue empty does not wait and returns the latched value.
C34_StickyFirstRead ==
    /\ []((Sticky /\ ReadsTimes /\ value[RepTimes] = None /\ qitems[RepTimes] = << >>) =>
              ~ENABLED WorkerRead("rep"))
    /\ [][(Sticky /\ value[RepTimes] = None /\ GotTimes /\ ~is_EOF(Head(qitems[RepTimes]))) =>
              /\ qitems'[RepTimes] = Tail(qitems[RepTimes])
              /\ value'[RepTimes] = Head(qitems[RepTimes])
              /\ Last(got'[RepTimes]) = Head(qitems[RepTimes])]_vars
    /\ []((Sticky /\ ReadsTimes /\ value[RepTimes] # None /\ qitems[RepTimes] = << >>) =>
              ENABLED WorkerRead("rep"))
    /\ [][(Sticky /\ value[RepTimes] # None /\ qitems[RepTimes] = << >> /\ GotTimes) =>
              /\ Last(got'[RepTimes]) = value[RepTimes]
              /\ value'[RepTimes] = value[RepTimes]]_vars

\* the first read of the sticky input took 3 from the queue and latched it,
\* and two later reads, with the queue empty, returned 3 again
C34_Witness ==
    /\ Sticky
    /\ puts[<<"g", "times">>] = << Msg("int", 3) >>
    /\ got[RepTimes] = << Msg("int", 3), Msg("int", 3), Msg("int", 3) >>
    /\ value[RepTimes] = Msg("int", 3)

\* the single queue-mode input of leaf t, if it has exactly one
SingleQueueInput(t) ==
    {i \in QueueInputs(t) : Cardinality(QueueInputs(t)) = 1}

\* C35: once the worker of a leaf with a single queue-mode input has read EOF
\* from that input, no step takes a further item from the input's queue:
\* what get() returned on it stays as it is, and the queue only grows, so
\* the items enqueued behind the EOF stay in the queue.
C35_NothingAfterEOF ==
    [][\A t \in Topo(scen).leaves : \A i \in SingleQueueInput(t) :
          Closed(got[i]) =>
              /\ got'[i] = got[i]
              /\ IsPrefix(qitems[i], qitems'[i])]_vars

\* the consumer read the EOF of the first producer and stopped; the value
\* and the EOF of the other producer are still in its queue when the graph
\* has stopped
C35_Witness ==
    /\ scen.name = "Merge"
    /\ stopped["g"]
    /\ is_EOF(Last(got[<<"sink", "inp">>]))
    /\ Len(qitems[<<"sink", "inp">>]) >= 2
    /\ ~is_EOF(qitems[<<"sink", "inp">>][1])

\* the outputs of leaf components that are connected to input queue i
Producers(i) ==
    {o \in DOMAIN queues :
        o[1] \in Topo(scen).leaves /\ \E k \in DOMAIN queues[o] : queues[o][k] = i}

\* process of leaf t was invoked with item v
Processed(t, v) ==
    \E j \in DOMAIN seen[t] : \E m \in DOMAIN seen[t][j] : seen[t][j][m] = v

\* C38: when two interior producers are wired to the same queue-mode input
\* of a leaf, the consumer has invoked process on every value either of
\* them sent by the time it has terminated; the EOF of the producer that
\* finishes first does not stop it.
C38_FanInLosesNothing ==
    \A t \in Topo(scen).leaves : \A i \in QueueInputs(t) :
        (Cardinality(Producers(i)) >= 2 /\ stopped[t]) =>
            \A o \in Producers(i) : \A k \in DOMAIN sent[o] :
                is_EOF(sent[o][k]) \/ Processed(t, sent[o][k])

\* C36: no invocation of process of a leaf receives the EOF marker as the
\* value of a queue-mode input, also when the leaf has two queue-mode
\* inputs whose producers close at different times.
C36_ProcessNeverSeesEOF ==
    \A t \in Topo(scen).leaves : \A j \in DOMAIN seen[t] :
        \A m \in DOMAIN Topo(scen).ins[t] :
            InputMode(Topo(scen), <<t, Topo(scen).ins[t][m]>>) = "queue" =>
                ~is_EOF(seen[t][j][m])

\* C37: over a run of a graph that is not terminated, the outside queue
\* connected to an exposed output receives exactly one EOF: never more than
\* one, one once the graph has stopped, and nothing behind it.
C37_OneEOFPerOutput ==
    Topo(scen).outside # << >> =>
        /\ Len(EOFs(qitems[Out_q])) <= 1
        /\ \A k \in DOMAIN qitems[Out_q] :
               is_EOF(qitems[Out_q][k]) => k = Len(qitems[Out_q])
        /\ stopped[Root(Topo(scen))] => Closed(qitems[Out_q])

\* what a graph port whose count is `count` passes on of the items put on
\* its redirect queue, when every EOF decrements the count and is passed
\* on only once the count is at or below zero
RECURSIVE Gated(_, _)
Gated(items, count) ==
    IF items = << >> THEN << >>
    ELSE IF is_EOF(Head(items))
    THEN (IF count - 1 <= 0 THEN << Head(items) >> ELSE << >>)
         \o Gated(Tail(items), count - 1)
    ELSE << Head(items) >> \o Gated(Tail(items), count)

\* C39: an EOF sent through an output in mode value with two or more
\* queues is handled as EOF by a graph port's redirect queue wherever it
\* sits among the queues: every EOF put on it decrements the count, and
\* the port passes on what a redirect queue that is the first queue would.
C39_CopiedEOFIsEOF ==
    (scen.name = "Tee" /\ scen.mode = "value" /\ Len(queues[BareO]) >= 2) =>
        /\ ref_count[BareP] = RefCount - Len(EOFs(puts[BareP]))
        /\ pending["main"] = << >> => sent[BareP] = Gated(puts[BareP], RefCount)

\* the step in which the thread of node n ends, having set its stopped event
Finishes(n) == pc[n] = "finish" /\ pc'[n] \in {"done", "raised"}

\* C40: when a node finishes, the stopped event of every other node stays
\* as it was, so that of a node that has not finished stays unset, also
\* when the nodes were constructed without a stopped argument.
C40_OwnStoppedEvent ==
    [][\A n \in Nodes(Topo(scen)) :
          Finishes(n) =>
              \A m \in Nodes(Topo(scen)) \ {n} : stopped'[m] = stopped[m]]_vars

====
